---- MODULE Spec2Model ----
(***************************************************************************)
(* Backtest simulation engine of web-app-backtest:                         *)
(*   TradeManager            (backend/src/services/tradeManager.ts)        *)
(*   TradeCalculator         (backend/src/models/Trade.ts)                 *)
(*   BacktestSessionManager  (backend/src/models/BacktestSession.ts)       *)
(*   SimulationEngine        (services/simulationEngine.ts, part_002)      *)
(*                                                                         *)
(* Units.  A price is an integer number of pips (1 pip = 0.0001), a time   *)
(* is an integer number of minutes, money is in account units and a lot    *)
(* size is a whole number of lots.  A quotient the code computes in        *)
(* floating point (a percentage, a ratio) is kept as an exact fraction     *)
(* [num, den].                                                             *)
(***************************************************************************)
EXTENDS Integers, Sequences, FiniteSets, TLC

(***************************************************************************)
(* Bounds of the model and configuration of the run.                       *)
(***************************************************************************)
MaxOrders == 2          \* orders submitted directly to a TradeManager
MaxCandles == 2         \* candles fed directly to a TradeManager
NumCandles == 4         \* m15Candles.length of a run
SkipCandles == 2        \* config.skipCandles
InitialBalance == 20    \* config.initialBalance
MaxStreak == 6          \* trades in an argument of calculateConsecutiveWinsLosses
MaxTrades == 3          \* trades in an argument of calculateMetrics
MaxClock == 1           \* milliseconds the system clock advances during two runs

Prices == {10, 20, 30}  \* price levels of candles, in pips
OrderPrices == {20}     \* trigger prices of orders, in pips
StopDists == {10}       \* distance of an order's stop-loss from its price
TargetDists == {10}     \* distance of an order's take-profit from its price
LotSizes == {1}
Dts == {90}             \* minutes between two candles fed to a TradeManager
RunDts == {15}          \* minutes between two M15 candles of a run

(***************************************************************************)
(* Program constants.                                                      *)
(***************************************************************************)
orderExpiryMinutes == 180
commissionPerLot == 7
leverage == 100
contractSize == 100000
PipsPerUnit == 10000    \* 1 / 0.0001

OrderTypes == {"BUY_STOP", "SELL_STOP", "BUY_LIMIT", "SELL_LIMIT"}

\* null, for state.activePosition and for positionUpdate
Null == [status |-> "NULL"]

\* a floating-point quotient n / d, kept exact
Rat(n, d) == [num |-> n, den |-> d]

VARIABLE state          \* TradeManager.state
VARIABLE session        \* the BacktestSession of the run
VARIABLE currentIndex   \* runBacktest: cursor into m15Candles
VARIABLE analysisCount  \* runBacktest: successful analyses so far
VARIABLE pc             \* runBacktest: "loop" | "returned"
VARIABLE currentCandle  \* the candle last passed to updateWithCandle
VARIABLE tradeUpdate    \* the value last returned by updateWithCandle
VARIABLE fed            \* indices of the candles passed to updateWithCandle
VARIABLE oracleCalls    \* the calls of performAnalysisCycle: cursor and outcome
VARIABLE lastOp         \* the operation that produced this state
VARIABLE returned       \* value last returned by cancelOrder / runBacktest
VARIABLE saved          \* the session file written by saveSessionResults
VARIABLE input          \* the argument of the operation that produced this state
VARIABLE cancelRequested \* a cancellation of the run was requested from outside
VARIABLE clock          \* the reading of the system clock, in milliseconds
VARIABLE runs           \* the concurrent calls of runBacktest, by caller
VARIABLE files          \* the results directory: file name to contents
VARIABLE response       \* the HTTP response the controller sent for the run
VARIABLE request        \* an external HTTP request made with retries

\* the server around a run: clock, concurrent runs, results directory, response
serverVars == <<clock, runs, files, response, request>>

vars ==
  <<state, session, currentIndex, analysisCount, pc, currentCandle,
    tradeUpdate, fed, oracleCalls, lastOp, returned, saved, input,
    cancelRequested, serverVars>>

(***************************************************************************)
(* TradeCalculator                                                         *)
(***************************************************************************)
calculatePnL(type, entryPrice, exitPrice, lotSize) ==
  LET pips == IF type = "BUY" THEN exitPrice - entryPrice
                              ELSE entryPrice - exitPrice
  IN pips * 1 * lotSize

calculatePnLPercent(pnl, accountBalance) == Rat(pnl * 100, accountBalance)

determineTradeStatus(pnl) ==
  IF pnl > 0 THEN "WIN" ELSE IF pnl < 0 THEN "LOSS" ELSE "BREAKEVEN"

\* calculateDuration with its arguments exchanged
calculateDuration_Reversed(openedAt, closedAt) == openedAt - closedAt

\* Math.floor(ms / 60000); times are whole minutes already
calculateDuration(openedAt, closedAt) == closedAt - openedAt

(***************************************************************************)
(* TradeManager                                                            *)
(***************************************************************************)
NewTradeManager(initialBalance) ==
  [pendingOrders |-> <<>>,
   activePosition |-> Null,
   balance |-> initialBalance,
   equity |-> initialBalance,
   margin |-> 0,
   freeMargin |-> initialBalance]

addPendingOrder(st, type, price, stopLoss, takeProfit, lotSize, analysisId, currentTime) ==
  LET order == [orderId |-> Len(st.pendingOrders) + 1,
                type |-> type,
                price |-> price,
                stopLoss |-> stopLoss,
                takeProfit |-> takeProfit,
                lotSize |-> lotSize,
                createdAt |-> currentTime,
                expiresAt |-> currentTime + orderExpiryMinutes,
                status |-> "PENDING",
                analysisId |-> analysisId]
  IN [st EXCEPT !.pendingOrders = Append(@, order)]

updateMarginRequirement(st) ==
  IF st.activePosition # Null
  THEN [st EXCEPT !.margin = (st.activePosition.lotSize * contractSize
                              * st.activePosition.entryPrice)
                             \div (leverage * PipsPerUnit)]
  ELSE [st EXCEPT !.margin = 0]

IsBuyOrder(type) == type \in {"BUY_STOP", "BUY_LIMIT"}

\* executeOrder opening the position without marking the order EXECUTED
executeOrder_StatusUnchanged(st, i, candle, currentTime) ==
  LET order == st.pendingOrders[i]
      executionPrice == order.price
      position == [type |-> IF IsBuyOrder(order.type) THEN "BUY" ELSE "SELL",
                   entryPrice |-> executionPrice,
                   stopLoss |-> order.stopLoss,
                   takeProfit |-> order.takeProfit,
                   lotSize |-> order.lotSize,
                   openedAt |-> currentTime,
                   status |-> "OPEN",
                   analysisId |-> order.analysisId]
      st1 == [st EXCEPT !.activePosition = position]
  IN [state |-> updateMarginRequirement(st1),
      result |-> [executed |-> TRUE, error |-> "none"]]

executeOrder(st, i, candle, currentTime) ==
  LET order == st.pendingOrders[i]
      executionPrice == order.price
      position == [type |-> IF IsBuyOrder(order.type) THEN "BUY" ELSE "SELL",
                   entryPrice |-> executionPrice,
                   stopLoss |-> order.stopLoss,
                   takeProfit |-> order.takeProfit,
                   lotSize |-> order.lotSize,
                   openedAt |-> currentTime,
                   status |-> "OPEN",
                   analysisId |-> order.analysisId]
      st1 == [st EXCEPT !.activePosition = position,
                        !.pendingOrders[i].status = "EXECUTED"]
  IN [state |-> updateMarginRequirement(st1),
      result |-> [executed |-> TRUE, error |-> "none"]]

\* shouldExecute with the BUY_LIMIT test copied from BUY_STOP
shouldExecute_LimitAsStop(order, candle) ==
  CASE order.type = "BUY_STOP"   -> candle.high >= order.price
    [] order.type = "SELL_STOP"  -> candle.low <= order.price
    [] order.type = "BUY_LIMIT"  -> candle.high >= order.price
    [] order.type = "SELL_LIMIT" -> candle.high >= order.price

shouldExecute(order, candle) ==
  CASE order.type = "BUY_STOP"   -> candle.high >= order.price
    [] order.type = "SELL_STOP"  -> candle.low <= order.price
    [] order.type = "BUY_LIMIT"  -> candle.low <= order.price
    [] order.type = "SELL_LIMIT" -> candle.high >= order.price

\* checkOrderExecution without the "Active position exists" return
checkOrderExecution_NoPositionGuard(st, i, candle, currentTime) ==
  LET order == st.pendingOrders[i] IN
  IF currentTime >= order.expiresAt
  THEN [state |-> [st EXCEPT !.pendingOrders[i].status = "EXPIRED"],
        result |-> [executed |-> FALSE, error |-> "Order expired"]]
  ELSE IF shouldExecute(order, candle)
  THEN executeOrder(st, i, candle, currentTime)
  ELSE [state |-> st, result |-> [executed |-> FALSE, error |-> "none"]]

\* checkOrderExecution with the expiry test currentTime > order.expiresAt
checkOrderExecution_ExpiryStrict(st, i, candle, currentTime) ==
  LET order == st.pendingOrders[i] IN
  IF currentTime > order.expiresAt
  THEN [state |-> [st EXCEPT !.pendingOrders[i].status = "EXPIRED"],
        result |-> [executed |-> FALSE, error |-> "Order expired"]]
  ELSE IF st.activePosition # Null
  THEN [state |-> st,
        result |-> [executed |-> FALSE, error |-> "Active position exists"]]
  ELSE IF shouldExecute(order, candle)
  THEN executeOrder(st, i, candle, currentTime)
  ELSE [state |-> st, result |-> [executed |-> FALSE, error |-> "none"]]

checkOrderExecution(st, i, candle, currentTime) ==
  LET order == st.pendingOrders[i] IN
  IF currentTime >= order.expiresAt
  THEN [state |-> [st EXCEPT !.pendingOrders[i].status = "EXPIRED"],
        result |-> [executed |-> FALSE, error |-> "Order expired"]]
  ELSE IF st.activePosition # Null
  THEN [state |-> st,
        result |-> [executed |-> FALSE, error |-> "Active position exists"]]
  ELSE IF shouldExecute(order, candle)
  THEN executeOrder(st, i, candle, currentTime)
  ELSE [state |-> st, result |-> [executed |-> FALSE, error |-> "none"]]

calculateCommission(lotSize) == lotSize * commissionPerLot

\* calculateSwap charging every started day
calculateSwap_PerStartedDay(position, currentTime) ==
  LET durationMinutes == currentTime - position.openedAt
      swapPerLotPerDay == IF position.type = "BUY" THEN -2 ELSE 1
  IN position.lotSize * swapPerLotPerDay
       * ((durationMinutes + 24 * 60 - 1) \div (24 * 60))

calculateSwap(position, currentTime) ==
  LET durationMinutes == currentTime - position.openedAt
      swapPerLotPerDay == IF position.type = "BUY" THEN -2 ELSE 1
  IN IF durationMinutes >= 24 * 60
     THEN position.lotSize * swapPerLotPerDay * (durationMinutes \div (24 * 60))
     ELSE 0

\* closePosition crediting the gross pnl to the balance
closePosition_BalanceFromGross(st, position, exitPrice, currentTime, reason) ==
  LET pnl == calculatePnL(position.type, position.entryPrice, exitPrice,
                          position.lotSize)
      commission == calculateCommission(position.lotSize)
      swap == calculateSwap(position, currentTime)
      netPnl == pnl - commission - swap
      newBalance == st.balance + pnl
      trade == [type |-> position.type,
                entryPrice |-> position.entryPrice,
                exitPrice |-> exitPrice,
                stopLoss |-> position.stopLoss,
                takeProfit |-> position.takeProfit,
                lotSize |-> position.lotSize,
                openedAt |-> position.openedAt,
                closedAt |-> currentTime,
                duration |-> calculateDuration(position.openedAt, currentTime),
                pnl |-> pnl,
                pnlPercent |-> calculatePnLPercent(netPnl, newBalance - netPnl),
                status |-> determineTradeStatus(pnl),
                exitReason |-> reason,
                analysisId |-> position.analysisId,
                commission |-> commission,
                swap |-> swap,
                netPnl |-> netPnl]
      st1 == [st EXCEPT !.balance = newBalance, !.activePosition = Null]
  IN [state |-> updateMarginRequirement(st1),
      result |-> [status |-> "UPDATE", closed |-> TRUE, trade |-> trade,
                  reason |-> reason]]

\* closePosition taking the trade's status from its net P&L
closePosition_StatusFromNet(st, position, exitPrice, currentTime, reason) ==
  LET pnl == calculatePnL(position.type, position.entryPrice, exitPrice,
                          position.lotSize)
      commission == calculateCommission(position.lotSize)
      swap == calculateSwap(position, currentTime)
      netPnl == pnl - commission - swap
      newBalance == st.balance + netPnl
      trade == [type |-> position.type,
                entryPrice |-> position.entryPrice,
                exitPrice |-> exitPrice,
                stopLoss |-> position.stopLoss,
                takeProfit |-> position.takeProfit,
                lotSize |-> position.lotSize,
                openedAt |-> position.openedAt,
                closedAt |-> currentTime,
                duration |-> calculateDuration(position.openedAt, currentTime),
                pnl |-> pnl,
                pnlPercent |-> calculatePnLPercent(netPnl, newBalance - netPnl),
                status |-> determineTradeStatus(netPnl),
                exitReason |-> reason,
                analysisId |-> position.analysisId,
                commission |-> commission,
                swap |-> swap,
                netPnl |-> netPnl]
      st1 == [st EXCEPT !.balance = newBalance, !.activePosition = Null]
  IN [state |-> updateMarginRequirement(st1),
      result |-> [status |-> "UPDATE", closed |-> TRUE, trade |-> trade,
                  reason |-> reason]]

closePosition(st, position, exitPrice, currentTime, reason) ==
  LET pnl == calculatePnL(position.type, position.entryPrice, exitPrice,
                          position.lotSize)
      commission == calculateCommission(position.lotSize)
      swap == calculateSwap(position, currentTime)
      netPnl == pnl - commission - swap
      newBalance == st.balance + netPnl
      trade == [type |-> position.type,
                entryPrice |-> position.entryPrice,
                exitPrice |-> exitPrice,
                stopLoss |-> position.stopLoss,
                takeProfit |-> position.takeProfit,
                lotSize |-> position.lotSize,
                openedAt |-> position.openedAt,
                closedAt |-> currentTime,
                duration |-> calculateDuration(position.openedAt, currentTime),
                pnl |-> pnl,
                pnlPercent |-> calculatePnLPercent(netPnl, newBalance - netPnl),
                status |-> determineTradeStatus(pnl),
                exitReason |-> reason,
                analysisId |-> position.analysisId,
                commission |-> commission,
                swap |-> swap,
                netPnl |-> netPnl]
      st1 == [st EXCEPT !.balance = newBalance, !.activePosition = Null]
  IN [state |-> updateMarginRequirement(st1),
      result |-> [status |-> "UPDATE", closed |-> TRUE, trade |-> trade,
                  reason |-> reason]]

\* updateActivePosition with the take-profit test before the stop-loss test
updateActivePosition_TakeProfitFirst(st, position, candle, currentTime) ==
  LET slHit == \/ position.type = "BUY" /\ candle.low <= position.stopLoss
               \/ position.type = "SELL" /\ candle.high >= position.stopLoss
      tpHit == \/ position.type = "BUY" /\ candle.high >= position.takeProfit
               \/ position.type = "SELL" /\ candle.low <= position.takeProfit
  IN IF tpHit
     THEN closePosition(st, position, position.takeProfit, currentTime, "TAKE_PROFIT")
     ELSE IF slHit
     THEN closePosition(st, position, position.stopLoss, currentTime, "STOP_LOSS")
     ELSE [state |-> st, result |-> Null]

\* updateActivePosition closing at the candle's extreme instead of the level
updateActivePosition_ExitAtExtreme(st, position, candle, currentTime) ==
  LET slHit == \/ position.type = "BUY" /\ candle.low <= position.stopLoss
               \/ position.type = "SELL" /\ candle.high >= position.stopLoss
      tpHit == \/ position.type = "BUY" /\ candle.high >= position.takeProfit
               \/ position.type = "SELL" /\ candle.low <= position.takeProfit
  IN IF slHit
     THEN closePosition(st, position,
                        IF position.type = "BUY" THEN candle.low ELSE candle.high,
                        currentTime, "STOP_LOSS")
     ELSE IF tpHit
     THEN closePosition(st, position,
                        IF position.type = "BUY" THEN candle.high ELSE candle.low,
                        currentTime, "TAKE_PROFIT")
     ELSE [state |-> st, result |-> Null]

updateActivePosition(st, position, candle, currentTime) ==
  LET slHit == \/ position.type = "BUY" /\ candle.low <= position.stopLoss
               \/ position.type = "SELL" /\ candle.high >= position.stopLoss
      tpHit == \/ position.type = "BUY" /\ candle.high >= position.takeProfit
               \/ position.type = "SELL" /\ candle.low <= position.takeProfit
  IN IF slHit
     THEN closePosition(st, position, position.stopLoss, currentTime, "STOP_LOSS")
     ELSE IF tpHit
     THEN closePosition(st, position, position.takeProfit, currentTime, "TAKE_PROFIT")
     ELSE [state |-> st, result |-> Null]

cleanupExpiredOrders(st, currentTime) ==
  [st EXCEPT !.pendingOrders =
     [i \in DOMAIN @ |->
        IF @[i].status = "PENDING" /\ currentTime >= @[i].expiresAt
        THEN [@[i] EXCEPT !.status = "EXPIRED"]
        ELSE @[i]]]

\* updateEquityAndMargin valuing the open position at the candle's high
updateEquityAndMargin_AtHigh(st, candle) ==
  LET unrealizedPnL ==
        IF st.activePosition # Null
        THEN calculatePnL(st.activePosition.type, st.activePosition.entryPrice,
                          candle.high, st.activePosition.lotSize)
        ELSE 0
      equity == st.balance + unrealizedPnL
  IN [st EXCEPT !.equity = equity, !.freeMargin = equity - st.margin]

updateEquityAndMargin(st, candle) ==
  LET unrealizedPnL ==
        IF st.activePosition # Null
        THEN calculatePnL(st.activePosition.type, st.activePosition.entryPrice,
                          candle.close, st.activePosition.lotSize)
        ELSE 0
      equity == st.balance + unrealizedPnL
  IN [st EXCEPT !.equity = equity, !.freeMargin = equity - st.margin]

\* the loop over this.state.pendingOrders run from the last order to the first
RECURSIVE checkPendingOrdersDown(_, _, _, _)
checkPendingOrdersDown(st, candle, i, executions) ==
  IF i < 1
  THEN [state |-> st, orderExecutions |-> executions]
  ELSE IF st.pendingOrders[i].status = "PENDING"
  THEN LET r == checkOrderExecution(st, i, candle, candle.time)
       IN checkPendingOrdersDown(r.state, candle, i - 1,
            IF r.result.executed THEN Append(executions, r.result)
                                 ELSE executions)
  ELSE checkPendingOrdersDown(st, candle, i - 1, executions)

checkPendingOrders_LatestFirst(st, candle, i, executions) ==
  checkPendingOrdersDown(st, candle, Len(st.pendingOrders), executions)

\* step 1 of updateWithCandle: the loop over this.state.pendingOrders
RECURSIVE checkPendingOrders(_, _, _, _)
checkPendingOrders(st, candle, i, executions) ==
  IF i > Len(st.pendingOrders)
  THEN [state |-> st, orderExecutions |-> executions]
  ELSE IF st.pendingOrders[i].status = "PENDING"
  THEN LET r == checkOrderExecution(st, i, candle, candle.time)
       IN checkPendingOrders(r.state, candle, i + 1,
            IF r.result.executed THEN Append(executions, r.result)
                                 ELSE executions)
  ELSE checkPendingOrders(st, candle, i + 1, executions)

\* updateWithCandle checking only a position that was open before the call
updateWithCandle_SkipNewPosition(st, candle) ==
  LET s1 == checkPendingOrders(st, candle, 1, <<>>)
      s2 == IF st.activePosition # Null /\ s1.state.activePosition # Null
            THEN updateActivePosition(s1.state, s1.state.activePosition,
                                      candle, candle.time)
            ELSE [state |-> s1.state, result |-> Null]
      s3 == cleanupExpiredOrders(s2.state, candle.time)
      s4 == updateEquityAndMargin(s3, candle)
  IN [state |-> s4,
      result |-> [orderExecutions |-> s1.orderExecutions,
                  positionUpdate |-> s2.result]]

updateWithCandle(st, candle) ==
  LET s1 == checkPendingOrders(st, candle, 1, <<>>)
      s2 == IF s1.state.activePosition # Null
            THEN updateActivePosition(s1.state, s1.state.activePosition,
                                      candle, candle.time)
            ELSE [state |-> s1.state, result |-> Null]
      s3 == cleanupExpiredOrders(s2.state, candle.time)
      s4 == updateEquityAndMargin(s3, candle)
  IN [state |-> s4,
      result |-> [orderExecutions |-> s1.orderExecutions,
                  positionUpdate |-> s2.result]]

\* canPlaceOrder without the test of the active position
canPlaceOrder_MarginOnly(st) == st.freeMargin > 0

canPlaceOrder(st) == st.activePosition = Null /\ st.freeMargin > 0

\* cancelOrder without the test of the order's status
cancelOrder_AnyStatus(st, orderId) ==
  IF \E i \in DOMAIN st.pendingOrders : st.pendingOrders[i].orderId = orderId
  THEN [state |-> [st EXCEPT !.pendingOrders[orderId].status = "CANCELLED"],
        result |-> TRUE]
  ELSE [state |-> st, result |-> FALSE]

cancelOrder(st, orderId) ==
  IF \E i \in DOMAIN st.pendingOrders :
        st.pendingOrders[i].orderId = orderId
        /\ st.pendingOrders[i].status = "PENDING"
  THEN [state |-> [st EXCEPT !.pendingOrders[orderId].status = "CANCELLED"],
        result |-> TRUE]
  ELSE [state |-> st, result |-> FALSE]

\* the orders of the list with the given status, counted
CountOrders(st, status) ==
  Cardinality({i \in DOMAIN st.pendingOrders :
                 st.pendingOrders[i].status = status})

getTradeStatistics(st) ==
  [totalOrders |-> Len(st.pendingOrders),
   executedOrders |-> CountOrders(st, "EXECUTED"),
   expiredOrders |-> CountOrders(st, "EXPIRED"),
   cancelledOrders |-> CountOrders(st, "CANCELLED"),
   currentBalance |-> st.balance,
   currentEquity |-> st.equity,
   marginUsed |-> st.margin,
   freeMargin |-> st.freeMargin]

(***************************************************************************)
(* BacktestSessionManager                                                  *)
(***************************************************************************)
RECURSIVE SumOver(_, _)
SumOver(xs, i) == IF i = 0 THEN 0 ELSE xs[i] + SumOver(xs, i - 1)

Sum(xs) == SumOver(xs, Len(xs))

MaxOf(S) == CHOOSE x \in S : \A y \in S : y <= x

MinOf(S) == CHOOSE x \in S : \A y \in S : x <= y

Abs(x) == IF x < 0 THEN -x ELSE x

Field(xs, f) == [i \in DOMAIN xs |-> xs[i][f]]

\* a < b for quotients with non-negative denominators (x / 0 is +-Infinity)
RatLess(a, b) == a.num * b.den < b.num * a.den

RatMax(a, b) == IF RatLess(a, b) THEN b ELSE a

createSession(startDate, initialBalance) ==
  [status |-> "RUNNING",
   initial_balance |-> initialBalance,
   performance_summary |->
     [net_profit_loss |-> 0,
      net_profit_loss_percent |-> Rat(0, 1),
      total_trades |-> 0,
      winning_trades |-> 0,
      losing_trades |-> 0,
      win_rate_percent |-> Rat(0, 1),
      profit_factor |-> Rat(0, 1),
      max_drawdown_percent |-> Rat(0, 1),
      ai_analysis_failures |-> 0,
      largest_winning_trade |-> 0,
      largest_losing_trade |-> 0,
      max_consecutive_wins |-> 0,
      max_consecutive_losses |-> 0,
      total_commission |-> 0,
      total_swap |-> 0,
      advanced_ratios |-> Null],
   trades |-> <<>>,
   equity_curve |-> <<[timestamp |-> startDate,
                       balance |-> initialBalance,
                       equity |-> initialBalance,
                       drawdown |-> 0,
                       drawdown_percent |-> Rat(0, 1)]>>,
   analysis_logs |-> <<>>,
   error_logs |-> <<>>]

RECURSIVE maxDrawdownFrom(_, _, _, _)
maxDrawdownFrom(equityCurve, i, peak, maxDrawdown) ==
  IF i > Len(equityCurve) THEN maxDrawdown
  ELSE LET point == equityCurve[i]
           peak1 == IF point.balance > peak THEN point.balance ELSE peak
           drawdown == IF peak1 > 0
                       THEN Rat((peak1 - point.balance) * 100, peak1)
                       ELSE Rat(0, 1)
       IN maxDrawdownFrom(equityCurve, i + 1, peak1, RatMax(maxDrawdown, drawdown))

calculateMaxDrawdown(equityCurve) ==
  IF Len(equityCurve) = 0 THEN Rat(0, 1)
  ELSE maxDrawdownFrom(equityCurve, 1, equityCurve[1].balance, Rat(0, 1))

\* the forEach loop of calculateMetrics over the trades' statuses: a trade
\* that is neither WIN nor LOSS leaves both running streaks as they are
RECURSIVE streaksFrom(_, _, _, _, _, _)
streaksFrom(trades, i, maxConsecutiveWins, maxConsecutiveLosses, currentWinStreak, currentLossStreak) ==
  IF i > Len(trades)
  THEN [maxWins |-> maxConsecutiveWins, maxLosses |-> maxConsecutiveLosses]
  ELSE IF trades[i].status = "WIN"
  THEN streaksFrom(trades, i + 1,
         IF currentWinStreak + 1 > maxConsecutiveWins
         THEN currentWinStreak + 1 ELSE maxConsecutiveWins,
         maxConsecutiveLosses, currentWinStreak + 1, 0)
  ELSE IF trades[i].status = "LOSS"
  THEN streaksFrom(trades, i + 1, maxConsecutiveWins,
         IF currentLossStreak + 1 > maxConsecutiveLosses
         THEN currentLossStreak + 1 ELSE maxConsecutiveLosses,
         0, currentLossStreak + 1)
  ELSE streaksFrom(trades, i + 1, maxConsecutiveWins, maxConsecutiveLosses,
                   currentWinStreak, currentLossStreak)

\* calculateConsecutiveWinsLosses without the reset on BREAKEVEN
calculateConsecutiveWinsLosses_NoBreakevenReset(trades) ==
  streaksFrom(trades, 1, 0, 0, 0, 0)

\* the profit factor without the infinite value
profitFactor_ZeroWithoutLosses(grossWin, grossLoss) ==
  IF grossLoss > 0 THEN Rat(grossWin, grossLoss) ELSE Rat(0, 1)

RECURSIVE consecutiveFrom(_, _, _, _, _, _)
consecutiveFrom(trades, i, maxWins, maxLosses, currentWins, currentLosses) ==
  IF i > Len(trades) THEN [maxWins |-> maxWins, maxLosses |-> maxLosses]
  ELSE IF trades[i].status = "WIN"
  THEN consecutiveFrom(trades, i + 1,
         IF currentWins + 1 > maxWins THEN currentWins + 1 ELSE maxWins,
         maxLosses, currentWins + 1, 0)
  ELSE IF trades[i].status = "LOSS"
  THEN consecutiveFrom(trades, i + 1, maxWins,
         IF currentLosses + 1 > maxLosses THEN currentLosses + 1 ELSE maxLosses,
         0, currentLosses + 1)
  ELSE consecutiveFrom(trades, i + 1, maxWins, maxLosses, 0, 0)

calculateConsecutiveWinsLosses(trades) == consecutiveFrom(trades, 1, 0, 0, 0, 0)

updatePerformanceSummary(s) ==
  LET trades == s.trades
      winningTrades == SelectSeq(trades, LAMBDA t : t.status = "WIN")
      losingTrades == SelectSeq(trades, LAMBDA t : t.status = "LOSS")
      totalPnl == Sum(Field(trades, "netPnl"))
      grossWin == Sum(Field(winningTrades, "pnl"))
      grossLoss == Abs(Sum(Field(losingTrades, "pnl")))
      profitFactor == IF grossLoss > 0 THEN Rat(grossWin, grossLoss)
                      ELSE IF grossWin > 0 THEN Rat(1, 0) ELSE Rat(0, 1)
      streaks == calculateConsecutiveWinsLosses(trades)
  IN IF Len(trades) = 0 THEN s
     ELSE [s EXCEPT !.performance_summary =
       [net_profit_loss |-> totalPnl,
        net_profit_loss_percent |-> Rat(totalPnl * 100, s.initial_balance),
        total_trades |-> Len(trades),
        winning_trades |-> Len(winningTrades),
        losing_trades |-> Len(losingTrades),
        win_rate_percent |-> Rat(Len(winningTrades) * 100, Len(trades)),
        profit_factor |-> profitFactor,
        max_drawdown_percent |-> calculateMaxDrawdown(s.equity_curve),
        ai_analysis_failures |-> Len(s.error_logs),
        largest_winning_trade |->
          IF Len(winningTrades) > 0
          THEN MaxOf({winningTrades[i].pnl : i \in DOMAIN winningTrades}) ELSE 0,
        largest_losing_trade |->
          IF Len(losingTrades) > 0
          THEN MinOf({losingTrades[i].pnl : i \in DOMAIN losingTrades}) ELSE 0,
        max_consecutive_wins |-> streaks.maxWins,
        max_consecutive_losses |-> streaks.maxLosses,
        total_commission |-> Sum(Field(trades, "commission")),
        total_swap |-> Sum(Field(trades, "swap")),
        advanced_ratios |-> s.performance_summary.advanced_ratios]]

\* TradeCalculator.calculateMetrics, line 167
profitFactor(grossWin, grossLoss) ==
  IF grossLoss > 0 THEN Rat(grossWin, grossLoss)
  ELSE IF grossWin > 0 THEN Rat(1, 0) ELSE Rat(0, 1)

calculateMetrics(trades) ==
  IF Len(trades) = 0
  THEN [totalTrades |-> 0,
        winningTrades |-> 0,
        losingTrades |-> 0,
        winRate |-> Rat(0, 1),
        profitFactor |-> Rat(0, 1),
        averageWin |-> Rat(0, 1),
        averageLoss |-> Rat(0, 1),
        largestWin |-> 0,
        largestLoss |-> 0,
        maxConsecutiveWins |-> 0,
        maxConsecutiveLosses |-> 0,
        averageTradeDuration |-> Rat(0, 1),
        totalPnl |-> 0,
        totalCommission |-> 0,
        totalSwap |-> 0,
        netPnl |-> 0]
  ELSE
    LET winningTrades == SelectSeq(trades, LAMBDA t : t.status = "WIN")
        losingTrades == SelectSeq(trades, LAMBDA t : t.status = "LOSS")
        totalPnl == Sum(Field(trades, "pnl"))
        totalCommission == Sum(Field(trades, "commission"))
        totalSwap == Sum(Field(trades, "swap"))
        grossWin == Sum(Field(winningTrades, "pnl"))
        grossLoss == Abs(Sum(Field(losingTrades, "pnl")))
        streaks == streaksFrom(trades, 1, 0, 0, 0, 0)
    IN [totalTrades |-> Len(trades),
        winningTrades |-> Len(winningTrades),
        losingTrades |-> Len(losingTrades),
        winRate |-> Rat(Len(winningTrades) * 100, Len(trades)),
        profitFactor |-> profitFactor(grossWin, grossLoss),
        averageWin |-> IF Len(winningTrades) > 0
                       THEN Rat(grossWin, Len(winningTrades)) ELSE Rat(0, 1),
        averageLoss |-> IF Len(losingTrades) > 0
                        THEN Rat(grossLoss, Len(losingTrades)) ELSE Rat(0, 1),
        largestWin |->
          IF Len(winningTrades) > 0
          THEN MaxOf({winningTrades[i].pnl : i \in DOMAIN winningTrades}) ELSE 0,
        largestLoss |->
          IF Len(losingTrades) > 0
          THEN MinOf({losingTrades[i].pnl : i \in DOMAIN losingTrades}) ELSE 0,
        maxConsecutiveWins |-> streaks.maxWins,
        maxConsecutiveLosses |-> streaks.maxLosses,
        averageTradeDuration |-> Rat(Sum(Field(trades, "duration")), Len(trades)),
        totalPnl |-> totalPnl,
        totalCommission |-> totalCommission,
        totalSwap |-> totalSwap,
        netPnl |-> totalPnl - totalCommission - totalSwap]

\* updateEquityCurve adding the trade's gross pnl to the last balance
updateEquityCurve_GrossPnl(s, trade) ==
  LET lastEquityPoint == s.equity_curve[Len(s.equity_curve)]
      newBalance == lastEquityPoint.balance + trade.pnl
      peak == MaxOf({s.equity_curve[i].balance : i \in DOMAIN s.equity_curve})
      drawdown == peak - newBalance
      drawdownPercent == IF peak > 0 THEN Rat(drawdown * 100, peak) ELSE Rat(0, 1)
  IN [s EXCEPT !.equity_curve =
        Append(@, [timestamp |-> trade.closedAt,
                   balance |-> newBalance,
                   equity |-> newBalance,
                   drawdown |-> drawdown,
                   drawdown_percent |-> drawdownPercent])]

updateEquityCurve(s, trade) ==
  LET lastEquityPoint == s.equity_curve[Len(s.equity_curve)]
      newBalance == lastEquityPoint.balance + trade.netPnl
      peak == MaxOf({s.equity_curve[i].balance : i \in DOMAIN s.equity_curve})
      drawdown == peak - newBalance
      drawdownPercent == IF peak > 0 THEN Rat(drawdown * 100, peak) ELSE Rat(0, 1)
  IN [s EXCEPT !.equity_curve =
        Append(@, [timestamp |-> trade.closedAt,
                   balance |-> newBalance,
                   equity |-> newBalance,
                   drawdown |-> drawdown,
                   drawdown_percent |-> drawdownPercent])]

\* addTrade without the call of updateEquityCurve
addTrade_NoEquityPoint(s, trade) ==
  updatePerformanceSummary([s EXCEPT !.trades = Append(@, trade)])

addTrade(s, trade) ==
  updateEquityCurve(updatePerformanceSummary(
    [s EXCEPT !.trades = Append(@, trade)]), trade)

\* completeSession leaving the status as it is
completeSession_StatusKept(s) == s

completeSession(s) == [s EXCEPT !.status = "COMPLETED"]

\* failSession recording the error without changing the status
failSession_LogOnly(s, error) ==
  [s EXCEPT !.error_logs = Append(@, "Session failed")]

failSession(s, error) ==
  [s EXCEPT !.status = "FAILED", !.error_logs = Append(@, "Session failed")]

addAnalysisLog(s, analysisId) == [s EXCEPT !.analysis_logs = Append(@, analysisId)]

addErrorLog(s, error) == [s EXCEPT !.error_logs = Append(@, error)]

\* the return rates between consecutive points with a positive balance before
calculateReturns(equityCurve) ==
  LET steps == SelectSeq([i \in 1 .. Len(equityCurve) - 1 |-> i],
                         LAMBDA i : equityCurve[i].balance > 0)
  IN [k \in DOMAIN steps |->
        Rat(equityCurve[steps[k] + 1].balance - equityCurve[steps[k]].balance,
            equityCurve[steps[k]].balance)]

\* The Sharpe, Sortino and Calmar ratios are functions of the return rates
\* that need square roots; the model records the return rates they were
\* computed from.  Nothing is written when there is no return rate.
calculateAdvancedMetrics(s) ==
  LET returns == calculateReturns(s.equity_curve) IN
  IF Len(returns) = 0 THEN s
  ELSE [s EXCEPT !.performance_summary.advanced_ratios = [returns |-> returns]]

(***************************************************************************)
(* The session file: JSON.stringify on save, JSON.parse on load            *)
(***************************************************************************)
JsonNull == [json |-> "null"]

\* JSON.stringify of a number: Infinity, -Infinity and NaN are written null
JsonNumber(x) == IF x.den = 0 THEN JsonNull ELSE x

\* JSON.stringify of a Date is its ISO string; JSON.parse leaves the string
JsonDate(t) == [iso |-> t]

JsonTrade(t) ==
  [t EXCEPT !.openedAt = JsonDate(@),
            !.closedAt = JsonDate(@),
            !.pnlPercent = JsonNumber(@)]

JsonEquityPoint(q) ==
  [q EXCEPT !.timestamp = JsonDate(@),
            !.drawdown_percent = JsonNumber(@)]

JsonSummary(ps) ==
  [ps EXCEPT !.net_profit_loss_percent = JsonNumber(@),
             !.win_rate_percent = JsonNumber(@),
             !.profit_factor = JsonNumber(@),
             !.max_drawdown_percent = JsonNumber(@),
             !.advanced_ratios =
                IF @ = Null THEN Null
                ELSE [returns |-> [k \in DOMAIN @.returns |-> JsonNumber(@.returns[k])]]]

JsonSession(s) ==
  [s EXCEPT !.performance_summary = JsonSummary(@),
            !.trades = [i \in DOMAIN @ |-> JsonTrade(@[i])],
            !.equity_curve = [i \in DOMAIN @ |-> JsonEquityPoint(@[i])]]

\* saveSessionResults: the file after the call; a failed write is logged and
\* not reported to the caller
saveSessionResults(file, s, writeOk) == IF writeOk THEN JsonSession(s) ELSE file

\* loadSessionResults: null when there is no file, else the parsed JSON
loadSessionResults(file) == file

(***************************************************************************)
(* Initial state: a session created by createSession and a TradeManager    *)
(* constructed with the initial balance, the candle sequence fetched, the  *)
(* cursor at the first candle.                                             *)
(***************************************************************************)
\* index: the position of the candle in the sequence it comes from
NoCandle == [index |-> -1, time |-> 0, high |-> 0, low |-> 0, close |-> 0]

NoUpdate == [orderExecutions |-> <<>>, positionUpdate |-> Null]

Candles(index, time) ==
  {[index |-> index, time |-> time, high |-> h, low |-> l, close |-> c] :
     h \in Prices, l \in Prices, c \in Prices}

\* validateAndTransformCandle keeps only candles with low <= close <= high
ValidCandles(index, time) ==
  {c \in Candles(index, time) : c.low <= c.high /\ c.close \in {c.low, c.high}}

Init ==
  /\ state = NewTradeManager(InitialBalance)
  /\ session = createSession(0, InitialBalance)
  /\ currentIndex = 0
  /\ analysisCount = 0
  /\ pc = "loop"
  /\ currentCandle = NoCandle
  /\ tradeUpdate = NoUpdate
  /\ fed = <<>>
  /\ oracleCalls = <<>>
  /\ lastOp = "init"
  /\ returned = Null
  /\ saved = Null
  /\ input = Null
  /\ cancelRequested = FALSE
  /\ clock = 0
  /\ runs = <<>>
  /\ files = <<>>
  /\ response = Null
  /\ request = Null

(***************************************************************************)
(* A TradeManager driven directly through its public operations.           *)
(***************************************************************************)
runVars == <<session, currentIndex, analysisCount, pc, oracleCalls>>

\* what no operation of a TradeManager and no iteration of the loop touches
envVars == <<saved, input, cancelRequested, serverVars>>

AddPendingOrder ==
  \E type \in OrderTypes, price \in OrderPrices, sd \in StopDists,
     td \in TargetDists, lotSize \in LotSizes :
    /\ Len(state.pendingOrders) < MaxOrders
    /\ LET dir == IF IsBuyOrder(type) THEN 1 ELSE -1
       IN state' = addPendingOrder(state, type, price, price - dir * sd,
                                   price + dir * td, lotSize,
                                   Len(state.pendingOrders) + 1,
                                   currentCandle.time)
    /\ lastOp' = "addPendingOrder"
    /\ UNCHANGED envVars
    /\ returned' = Null
    /\ UNCHANGED <<runVars, currentCandle, tradeUpdate, fed>>

UpdateWithCandle ==
  /\ Len(fed) < MaxCandles
  /\ lastOp' = "updateWithCandle"
  /\ \E dt \in Dts :
       \E candle \in ValidCandles(Len(fed), currentCandle.time + dt) :
         /\ currentCandle' = candle
         /\ \E r \in {updateWithCandle(state, candle)} :
              /\ state' = r.state
              /\ tradeUpdate' = r.result
         /\ fed' = Append(fed, Len(fed))
         /\ UNCHANGED envVars
         /\ returned' = Null
         /\ UNCHANGED runVars

CancelOrder ==
  \E orderId \in 1..MaxOrders :
    /\ LET r == cancelOrder(state, orderId)
       IN /\ state' = r.state
          /\ returned' = r.result
    /\ lastOp' = "cancelOrder"
    /\ UNCHANGED envVars
    /\ UNCHANGED <<runVars, currentCandle, tradeUpdate, fed>>

Next == AddPendingOrder \/ UpdateWithCandle \/ CancelOrder

Spec == Init /\ [][Next]_vars

(***************************************************************************)
(* SimulationEngine.runBacktest: one action per outcome of one iteration   *)
(* of the replay loop, and one for the code after the loop.                *)
(***************************************************************************)
RECURSIVE SumsOf(_, _)
SumsOf(D, k) == IF k = 0 THEN {0} ELSE {a + b : a \in D, b \in SumsOf(D, k - 1)}

\* m15Candles[currentIndex]; the candles are sorted by time.  The candles of
\* a run close at their high.
NextCandles ==
  UNION {{c \in ValidCandles(currentIndex, currentCandle.time + d) :
            c.close = c.high} :
           d \in SumsOf(RunDts, currentIndex - currentCandle.index)}

\* tradeDetails of a TRADE decision (parseTradeDetails)
TradeDetails ==
  {[type |-> t, entryPrice |-> p,
    stopLoss |-> IF t = "BUY" THEN p - sd ELSE p + sd,
    takeProfit |-> IF t = "BUY" THEN p + td ELSE p - td,
    lotSize |-> l] :
     t \in {"BUY", "SELL"}, p \in OrderPrices, sd \in StopDists,
     td \in TargetDists, l \in LotSizes}

\* tradeDetails.type === 'BUY'; a missing type is not 'BUY'
determineOrderType(tradeDetails) ==
  IF "type" \in DOMAIN tradeDetails /\ tradeDetails.type = "BUY"
  THEN "BUY_STOP" ELSE "SELL_STOP"

InLoop == pc = "loop" /\ currentIndex < NumCandles

OracleCall(index, outcome) == [index |-> index, outcome |-> outcome]

\* lines 1624-1630: feed the candle, append the trade of a closed position
FeedCandle(candle) ==
  LET r == updateWithCandle(state, candle)
      pu == r.result.positionUpdate
  IN [state |-> r.state,
      tradeUpdate |-> r.result,
      session |-> IF pu # Null /\ pu.closed THEN addTrade(session, pu.trade)
                                            ELSE session]

Fed(f) ==
  /\ tradeUpdate' = f.tradeUpdate
  /\ fed' = Append(fed, currentIndex)

\* canPlaceOrder() is false: no analysis, next candle
IterNoAnalysis ==
  /\ InLoop
  /\ lastOp' = "noAnalysis"
  /\ \E candle \in NextCandles :
       /\ currentCandle' = candle
       /\ \E f \in {FeedCandle(candle)} :
            /\ ~canPlaceOrder(f.state)
            /\ Fed(f)
            /\ state' = f.state
            /\ session' = f.session
            /\ currentIndex' = currentIndex + 1
            /\ UNCHANGED envVars
            /\ UNCHANGED <<analysisCount, pc, oracleCalls, returned>>

\* IterTrade with the order submitted before the candle is fed: the order is
\* evaluated against the candle of its own decision
IterTrade_OrderBeforeFeed ==
  /\ InLoop
  /\ lastOp' = "TRADE"
  /\ canPlaceOrder(state)
  /\ \E candle \in NextCandles, details \in TradeDetails :
       /\ currentCandle' = candle
       /\ \E analysisId \in {Len(oracleCalls) + 1} :
          \E r \in {updateWithCandle(
                      addPendingOrder(state, determineOrderType(details),
                                      details.entryPrice, details.stopLoss,
                                      details.takeProfit, details.lotSize,
                                      analysisId, candle.time), candle)} :
            /\ tradeUpdate' = r.result
            /\ fed' = Append(fed, currentIndex)
            /\ oracleCalls' = Append(oracleCalls, OracleCall(currentIndex, "TRADE"))
            /\ state' = r.state
            /\ analysisCount' = analysisCount + 1
            /\ session' = addAnalysisLog(
                 IF r.result.positionUpdate # Null /\ r.result.positionUpdate.closed
                 THEN addTrade(session, r.result.positionUpdate.trade)
                 ELSE session, analysisId)
            /\ currentIndex' = currentIndex + 1
            /\ UNCHANGED envVars
            /\ UNCHANGED <<pc, returned>>

\* the analysis succeeds with decision TRADE: a pending order is placed
IterTrade ==
  /\ InLoop
  /\ lastOp' = "TRADE"
  /\ \E candle \in NextCandles, details \in TradeDetails :
       /\ currentCandle' = candle
       /\ \E f \in {FeedCandle(candle)}, analysisId \in {Len(oracleCalls) + 1} :
            /\ canPlaceOrder(f.state)
            /\ Fed(f)
            /\ oracleCalls' = Append(oracleCalls, OracleCall(currentIndex, "TRADE"))
            /\ state' = addPendingOrder(f.state, determineOrderType(details),
                                        details.entryPrice, details.stopLoss,
                                        details.takeProfit, details.lotSize,
                                        analysisId, candle.time)
            /\ analysisCount' = analysisCount + 1
            /\ session' = addAnalysisLog(f.session, analysisId)
            /\ currentIndex' = currentIndex + 1
            /\ UNCHANGED envVars
            /\ UNCHANGED <<pc, returned>>

\* IterNoTrade jumping one candle short: the last skipped candle is replayed
IterNoTrade_SkipOneLess ==
  /\ InLoop
  /\ lastOp' = "NO_TRADE"
  /\ \E candle \in NextCandles :
       /\ currentCandle' = candle
       /\ \E f \in {FeedCandle(candle)}, analysisId \in {Len(oracleCalls) + 1} :
            /\ canPlaceOrder(f.state)
            /\ Fed(f)
            /\ oracleCalls' = Append(oracleCalls, OracleCall(currentIndex, "NO_TRADE"))
            /\ state' = f.state
            /\ analysisCount' = analysisCount + 1
            /\ session' = addAnalysisLog(f.session, analysisId)
            /\ currentIndex' = currentIndex + SkipCandles - 1
            /\ UNCHANGED envVars
            /\ UNCHANGED <<pc, returned>>

\* IterNoTrade without the continue: the cursor is also incremented
IterNoTrade_NoContinue ==
  /\ InLoop
  /\ lastOp' = "NO_TRADE"
  /\ \E candle \in NextCandles :
       /\ currentCandle' = candle
       /\ \E f \in {FeedCandle(candle)}, analysisId \in {Len(oracleCalls) + 1} :
            /\ canPlaceOrder(f.state)
            /\ Fed(f)
            /\ oracleCalls' = Append(oracleCalls, OracleCall(currentIndex, "NO_TRADE"))
            /\ state' = f.state
            /\ analysisCount' = analysisCount + 1
            /\ session' = addAnalysisLog(f.session, analysisId)
            /\ currentIndex' = currentIndex + SkipCandles + 1
            /\ UNCHANGED envVars
            /\ UNCHANGED <<pc, returned>>

\* the analysis succeeds with decision NO_TRADE: skip candles
IterNoTrade ==
  /\ InLoop
  /\ lastOp' = "NO_TRADE"
  /\ \E candle \in NextCandles :
       /\ currentCandle' = candle
       /\ \E f \in {FeedCandle(candle)}, analysisId \in {Len(oracleCalls) + 1} :
            /\ canPlaceOrder(f.state)
            /\ Fed(f)
            /\ oracleCalls' = Append(oracleCalls, OracleCall(currentIndex, "NO_TRADE"))
            /\ state' = f.state
            /\ analysisCount' = analysisCount + 1
            /\ session' = addAnalysisLog(f.session, analysisId)
            /\ currentIndex' = currentIndex + SkipCandles
            /\ UNCHANGED envVars
            /\ UNCHANGED <<pc, returned>>

\* IterAnalysisFailed skipping candles as after a NO_TRADE decision
IterAnalysisFailed_Skip ==
  /\ InLoop
  /\ lastOp' = "analysisFailed"
  /\ \E candle \in NextCandles :
       /\ currentCandle' = candle
       /\ \E f \in {FeedCandle(candle)} :
            /\ canPlaceOrder(f.state)
            /\ Fed(f)
            /\ oracleCalls' = Append(oracleCalls, OracleCall(currentIndex, "FAILED"))
            /\ state' = f.state
            /\ session' = addErrorLog(f.session, "Analysis failed")
            /\ currentIndex' = currentIndex + SkipCandles
            /\ UNCHANGED envVars
            /\ UNCHANGED <<analysisCount, pc, returned>>

\* performAnalysisCycle returns success: false (data or oracle failure)
IterAnalysisFailed ==
  /\ InLoop
  /\ lastOp' = "analysisFailed"
  /\ \E candle \in NextCandles :
       /\ currentCandle' = candle
       /\ \E f \in {FeedCandle(candle)} :
            /\ canPlaceOrder(f.state)
            /\ Fed(f)
            /\ oracleCalls' = Append(oracleCalls, OracleCall(currentIndex, "FAILED"))
            /\ state' = f.state
            /\ session' = addErrorLog(f.session, "Analysis failed")
            /\ currentIndex' = currentIndex + 1
            /\ UNCHANGED envVars
            /\ UNCHANGED <<analysisCount, pc, returned>>

\* the catch block skipping candles instead of moving to the next one
LoopError_SkipCandles(s) ==
  /\ session' = addErrorLog(s, "Loop error")
  /\ currentIndex' = currentIndex + SkipCandles

\* the catch block without currentIndex++
LoopError_NoAdvance(s) ==
  /\ session' = addErrorLog(s, "Loop error")
  /\ currentIndex' = currentIndex

\* the catch block of the loop body, lines 1696-1710
LoopError(s) ==
  /\ session' = addErrorLog(s, "Loop error")
  /\ currentIndex' = currentIndex + 1

\* updateWithCandle throws before it changes the TradeManager
IterThrowUpdate ==
  /\ InLoop
  /\ lastOp' = "throwUpdate"
  /\ \E candle \in NextCandles :
       /\ currentCandle' = candle
       /\ LoopError(session)
       /\ UNCHANGED envVars
       /\ UNCHANGED <<state, tradeUpdate, fed, analysisCount, pc, oracleCalls,
                      returned>>

\* addPendingOrder throws after a TRADE decision, before it adds the order
IterThrowOrder ==
  /\ InLoop
  /\ lastOp' = "throwOrder"
  /\ \E candle \in NextCandles :
       /\ currentCandle' = candle
       /\ \E f \in {FeedCandle(candle)} :
            /\ canPlaceOrder(f.state)
            /\ Fed(f)
            /\ oracleCalls' = Append(oracleCalls, OracleCall(currentIndex, "TRADE"))
            /\ state' = f.state
            /\ LoopError(f.session)
            /\ UNCHANGED envVars
            /\ UNCHANGED <<analysisCount, pc, returned>>

\* the completion closing a position that is still open, at the last close
Complete_CloseOpenPosition ==
  /\ pc = "loop"
  /\ currentIndex >= NumCandles
  /\ \E writeOk \in BOOLEAN :
     \E r \in {IF state.activePosition # Null
               THEN closePosition(state, state.activePosition,
                                  currentCandle.close, currentCandle.time,
                                  "MANUAL")
               ELSE [state |-> state, result |-> Null]} :
       /\ state' = r.state
       /\ session' = calculateAdvancedMetrics(completeSession(
            IF r.result # Null THEN addTrade(session, r.result.trade)
                               ELSE session))
       /\ saved' = saveSessionResults(saved, session', writeOk)
       /\ input' = [writeOk |-> writeOk]
  /\ pc' = "returned"
  /\ returned' = [success |-> TRUE]
  /\ lastOp' = "complete"
  /\ UNCHANGED <<currentIndex, analysisCount, currentCandle,
                 tradeUpdate, fed, oracleCalls, cancelRequested, serverVars>>

\* lines 1713-1732: the candle sequence is exhausted
Complete ==
  /\ pc = "loop"
  /\ currentIndex >= NumCandles
  /\ \E writeOk \in BOOLEAN :
       /\ session' = calculateAdvancedMetrics(completeSession(session))
       /\ saved' = saveSessionResults(saved, session', writeOk)
       /\ input' = [writeOk |-> writeOk]
  /\ pc' = "returned"
  /\ returned' = [success |-> TRUE]
  /\ lastOp' = "complete"
  /\ UNCHANGED <<state, currentIndex, analysisCount, currentCandle,
                 tradeUpdate, fed, oracleCalls, cancelRequested, serverVars>>

\* the disjuncts that are cheapest to find enabled come first
RunNext ==
  \/ Complete
  \/ IterThrowUpdate
  \/ IterThrowOrder
  \/ IterNoAnalysis
  \/ IterTrade
  \/ IterNoTrade
  \/ IterAnalysisFailed

RunSpec == Init /\ [][RunNext]_vars

\* the run with its continuations scheduled: every awaited call settles
\* (data and oracle requests succeed, fail or time out) and the event loop
\* then resumes the async function
RunLiveSpec == Init /\ [][RunNext]_vars /\ WF_vars(RunNext)

(***************************************************************************)
(* SimulationEngine.runBacktest from its call: validation of the           *)
(* configuration, creation of the session, fetch of the M15 candles, the   *)
(* replay loop, completion; and the catch block around all of it.          *)
(***************************************************************************)
\* moment(): the day of the call; the dates of a configuration are in days
Today == 400

UpperCaseLetters == {"E", "U", "R", "S", "D"}

toUpperCase(c) ==
  CASE c = "e" -> "E" [] c = "u" -> "U" [] c = "r" -> "R" [] OTHER -> c

\* symbols as sequences of characters
Symbols ==
  {<<"E", "U", "R", "U", "S", "D">>, <<"e", "u", "r">>,
   <<"E", "U", "R", "/", "U", "S">>}

\* /^[A-Z]{6}$/.test(symbol.toUpperCase())
validateSymbol(symbol) ==
  /\ Len(symbol) = 6
  /\ \A i \in DOMAIN symbol : toUpperCase(symbol[i]) \in UpperCaseLetters

validateDateRange(startDate, endDate) ==
  /\ ~(startDate > endDate)
  /\ ~(endDate > Today)
  /\ ~(endDate - startDate > 365)
  /\ ~(endDate - startDate < 1)

\* the configurations runBacktest is called with; prompts by their length
Configs ==
  [symbol : Symbols,
   startDate : {0, 10},
   endDate : {0, 5, 400, 500},
   initialBalance : {0, InitialBalance},
   skipCandles : {0, SkipCandles, 101},
   analysisWindowHours : {0, 20, 169},
   analysisPrompt : {9, 10},
   extractorPrompt : {0, 10}]

\* validateConfiguration without the test of skipCandles
validateConfiguration_NoSkipCheck(config) ==
  LET errors ==
        {e \in {"symbol", "dateRange", "balance", "analysisWindow",
                "analysisPrompt", "extractorPrompt"} :
           \/ e = "symbol" /\ ~validateSymbol(config.symbol)
           \/ e = "dateRange"
                /\ ~validateDateRange(config.startDate, config.endDate)
           \/ e = "balance" /\ config.initialBalance <= 0
           \/ e = "analysisWindow"
                /\ (config.analysisWindowHours < 1
                    \/ config.analysisWindowHours > 168)
           \/ e = "analysisPrompt"
                /\ (config.analysisPrompt = 0 \/ config.analysisPrompt < 10)
           \/ e = "extractorPrompt"
                /\ (config.extractorPrompt = 0 \/ config.extractorPrompt < 10)}
  IN [valid |-> errors = {}, errors |-> errors]

\* the errors validateConfiguration collects
validateConfiguration(config) ==
  LET errors ==
        {e \in {"symbol", "dateRange", "balance", "skipCandles",
                "analysisWindow", "analysisPrompt", "extractorPrompt"} :
           \/ e = "symbol" /\ ~validateSymbol(config.symbol)
           \/ e = "dateRange"
                /\ ~validateDateRange(config.startDate, config.endDate)
           \/ e = "balance" /\ config.initialBalance <= 0
           \/ e = "skipCandles"
                /\ (config.skipCandles < 1 \/ config.skipCandles > 100)
           \/ e = "analysisWindow"
                /\ (config.analysisWindowHours < 1
                    \/ config.analysisWindowHours > 168)
           \/ e = "analysisPrompt"
                /\ (config.analysisPrompt = 0 \/ config.analysisPrompt < 10)
           \/ e = "extractorPrompt"
                /\ (config.extractorPrompt = 0 \/ config.extractorPrompt < 10)}
  IN [valid |-> errors = {}, errors |-> errors]

\* runBacktest has been called: no session, no TradeManager yet
StartInit ==
  /\ state = Null
  /\ session = Null
  /\ currentIndex = 0
  /\ analysisCount = 0
  /\ pc = "start"
  /\ currentCandle = NoCandle
  /\ tradeUpdate = NoUpdate
  /\ fed = <<>>
  /\ oracleCalls = <<>>
  /\ lastOp = "init"
  /\ returned = Null
  /\ saved = Null
  /\ input = Null
  /\ cancelRequested = FALSE
  /\ clock = 0
  /\ runs = <<>>
  /\ files = <<>>
  /\ response = Null
  /\ request = Null

\* lines 1566-1570 and 1734-1749: the configuration is invalid, the error is
\* caught with session still null
RejectConfiguration ==
  /\ pc = "start"
  /\ \E config \in Configs :
       /\ ~validateConfiguration(config).valid
       /\ input' = config
  /\ pc' = "returned"
  /\ returned' = [success |-> FALSE]
  /\ lastOp' = "invalidConfiguration"
  /\ UNCHANGED <<state, session, currentIndex, analysisCount, currentCandle,
                 tradeUpdate, fed, oracleCalls, saved, cancelRequested, serverVars>>

\* lines 1572-1605 and 1734-1749: the session and the TradeManager are
\* created, the fetch of the M15 candles fails or returns no candle; the
\* catch block fails the session and saves it
FetchFailed ==
  /\ pc = "start"
  /\ \E config \in Configs, cause \in {"failed", "empty"}, writeOk \in BOOLEAN :
       /\ validateConfiguration(config).valid
       /\ state' = NewTradeManager(config.initialBalance)
       /\ session' = failSession(createSession(config.startDate,
                                               config.initialBalance),
                                 "Failed to fetch M15 data for simulation")
       /\ saved' = saveSessionResults(saved, session', writeOk)
       /\ input' = [config |-> config, cause |-> cause, writeOk |-> writeOk]
  /\ pc' = "returned"
  /\ returned' = [success |-> FALSE]
  /\ lastOp' = "fetchFailed"
  /\ UNCHANGED <<currentIndex, analysisCount, currentCandle, tradeUpdate, fed,
                 oracleCalls, cancelRequested, serverVars>>

\* lines 1572-1616: the session and the TradeManager are created, the M15
\* candles are fetched, the loop starts at the first candle
StartRun ==
  /\ pc = "start"
  /\ \E config \in Configs :
       /\ validateConfiguration(config).valid
       /\ state' = NewTradeManager(config.initialBalance)
       /\ session' = createSession(config.startDate, config.initialBalance)
       /\ input' = config
  /\ pc' = "loop"
  /\ lastOp' = "start"
  /\ UNCHANGED <<currentIndex, analysisCount, currentCandle, tradeUpdate, fed,
                 oracleCalls, returned, saved, cancelRequested, serverVars>>

\* a cancellation of the run is requested from outside while it is in its
\* loop; runBacktest reads no such flag
RequestCancellation ==
  /\ pc = "loop"
  /\ ~cancelRequested
  /\ cancelRequested' = TRUE
  /\ lastOp' = "requestCancellation"
  /\ UNCHANGED <<state, session, currentIndex, analysisCount, pc,
                 currentCandle, tradeUpdate, fed, oracleCalls, returned, saved,
                 input, serverVars>>

\* loadSessionResults called for the session of the run after it returned
LoadSessionResults ==
  /\ pc = "returned"
  /\ returned' = loadSessionResults(saved)
  /\ lastOp' = "loadSessionResults"
  /\ UNCHANGED <<state, session, currentIndex, analysisCount, pc,
                 currentCandle, tradeUpdate, fed, oracleCalls, saved, input,
                 cancelRequested, serverVars>>

BacktestNext ==
  \/ RejectConfiguration
  \/ FetchFailed
  \/ StartRun
  \/ RunNext
  \/ LoadSessionResults

BacktestSpec == StartInit /\ [][BacktestNext]_vars

\* runBacktest with cancellation requests arriving from outside
CancelNext == BacktestNext \/ RequestCancellation

CancelSpec == StartInit /\ [][CancelNext]_vars

(***************************************************************************)
(* Properties                                                              *)
(***************************************************************************)
Orders == DOMAIN state.pendingOrders

OrderStatus(i) == state.pendingOrders[i].status

\* the step is a call of updateWithCandle on a TradeManager
IsUpdate == lastOp' = "updateWithCandle"

\* order i is marked EXECUTED by the step
NewlyExecuted(i) ==
  /\ OrderStatus(i) = "PENDING"
  /\ state'.pendingOrders[i].status = "EXECUTED"

\* the price condition of an order type against a candle
Triggers(order, candle) ==
  \/ order.type = "BUY_STOP" /\ candle.high >= order.price
  \/ order.type = "SELL_STOP" /\ candle.low <= order.price
  \/ order.type = "BUY_LIMIT" /\ candle.low <= order.price
  \/ order.type = "SELL_LIMIT" /\ candle.high >= order.price

Unexpired(order, candle) == candle.time < order.expiresAt

\* C1: a call of updateWithCandle marks no order EXECUTED when a position is
\* open at the call, and marks at most one order EXECUTED otherwise, however
\* many PENDING orders trigger on the candle: there is never a second open
\* position.
C1_AtMostOnePosition ==
  [][IsUpdate =>
       /\ Cardinality({i \in Orders : NewlyExecuted(i)}) <= 1
       /\ state.activePosition # Null => \A i \in Orders : ~NewlyExecuted(i)
       /\ \A i \in Orders :
            NewlyExecuted(i) =>
              \/ state'.activePosition # Null
              \/ tradeUpdate'.positionUpdate # Null]_vars

\* two unexpired PENDING orders triggered on the last candle: the first was
\* executed, the second is still PENDING behind the open position
C1_Witness ==
  /\ lastOp = "updateWithCandle"
  /\ state.activePosition # Null
  /\ state.activePosition.openedAt = currentCandle.time
  /\ \E i, j \in Orders :
       /\ i < j
       /\ OrderStatus(i) = "EXECUTED"
       /\ OrderStatus(j) = "PENDING"
       /\ Triggers(state.pendingOrders[j], currentCandle)
       /\ Unexpired(state.pendingOrders[j], currentCandle)

TouchesBoth(p, candle) ==
  \/ /\ p.type = "BUY"
     /\ p.stopLoss < p.entryPrice /\ p.entryPrice < p.takeProfit
     /\ candle.low <= p.stopLoss /\ candle.high >= p.takeProfit
  \/ /\ p.type = "SELL"
     /\ candle.high >= p.stopLoss /\ candle.low <= p.takeProfit

\* C3: a position that is open when updateWithCandle is called with a candle
\* touching both its stop-loss and its take-profit is closed by the call at
\* its stop-loss, with reason STOP_LOSS.
C3_StopLossPrecedence ==
  [][(IsUpdate /\ state.activePosition # Null
      /\ TouchesBoth(state.activePosition, currentCandle')) =>
       LET pu == tradeUpdate'.positionUpdate IN
       /\ pu # Null
       /\ pu.closed
       /\ pu.reason = "STOP_LOSS"
       /\ pu.trade.exitReason = "STOP_LOSS"
       /\ pu.trade.exitPrice = state.activePosition.stopLoss
       /\ pu.trade.type = state.activePosition.type
       /\ state'.activePosition = Null]_vars

\* a position opened by an earlier candle was closed at its stop-loss by a
\* candle that also reached its take-profit
C3_Witness ==
  /\ lastOp = "updateWithCandle"
  /\ tradeUpdate.positionUpdate # Null
  /\ LET t == tradeUpdate.positionUpdate.trade IN
     /\ t.openedAt < currentCandle.time
     /\ TouchesBoth(t, currentCandle)
     /\ t.exitReason = "STOP_LOSS"

\* order i is PENDING and not expired at the candle
PendingUnexpired(i, candle) ==
  /\ OrderStatus(i) = "PENDING"
  /\ Unexpired(state.pendingOrders[i], candle)

\* the PENDING, unexpired orders whose price condition the candle satisfies
Triggering(candle) ==
  {i \in Orders : /\ PendingUnexpired(i, candle)
                  /\ Triggers(state.pendingOrders[i], candle)}

\* the position the step opened: still open after the step, or closed by the
\* same candle and reported as the trade of the position update
OpenedPosition ==
  IF state'.activePosition # Null THEN state'.activePosition
  ELSE tradeUpdate'.positionUpdate.trade

\* C4 as stated: with no position open, every unexpired PENDING order is
\* executed by updateWithCandle if and only if the candle satisfies the price
\* condition of its type.
C4_Original ==
  [][(IsUpdate /\ state.activePosition = Null) =>
       \A i \in Orders :
         PendingUnexpired(i, currentCandle') =>
           (state'.pendingOrders[i].status = "EXECUTED"
              <=> Triggers(state.pendingOrders[i], currentCandle'))]_vars

\* C4, amended: with no position open, an unexpired PENDING order is executed
\* by updateWithCandle if and only if the candle satisfies the price condition
\* of its type (BUY_STOP: high >= price, SELL_STOP: low <= price, BUY_LIMIT:
\* low <= price, SELL_LIMIT: high >= price) and no earlier-submitted unexpired
\* PENDING order is triggered by the same candle.  The executed order becomes
\* EXECUTED and the position it opens has entryPrice equal to the order's
\* price, side BUY for BUY_* and SELL for SELL_* orders, and the order's
\* stopLoss, takeProfit, lotSize and analysisId; an order that is not executed
\* stays PENDING.
C4_ExecutesIffTriggered ==
  [][(IsUpdate /\ state.activePosition = Null) =>
       \A i \in Orders :
         PendingUnexpired(i, currentCandle') =>
           LET order == state.pendingOrders[i]
               first == \A j \in Triggering(currentCandle') : i <= j
           IN /\ NewlyExecuted(i) <=>
                   (Triggers(order, currentCandle') /\ first)
              /\ ~NewlyExecuted(i) => state'.pendingOrders[i] = order
              /\ NewlyExecuted(i) =>
                   /\ state'.pendingOrders[i] = [order EXCEPT !.status = "EXECUTED"]
                   /\ OpenedPosition.entryPrice = order.price
                   /\ OpenedPosition.type =
                        (IF order.type \in {"BUY_STOP", "BUY_LIMIT"}
                         THEN "BUY" ELSE "SELL")
                   /\ OpenedPosition.stopLoss = order.stopLoss
                   /\ OpenedPosition.takeProfit = order.takeProfit
                   /\ OpenedPosition.lotSize = order.lotSize
                   /\ OpenedPosition.analysisId = order.analysisId
                   /\ OpenedPosition.openedAt = currentCandle'.time]_vars

\* the last candle executed the second order, a limit order, and left the
\* first one PENDING because its price condition was not satisfied
C4_Witness ==
  /\ lastOp = "updateWithCandle"
  /\ \E i, j \in Orders :
       /\ i < j
       /\ OrderStatus(i) = "PENDING"
       /\ Unexpired(state.pendingOrders[i], currentCandle)
       /\ ~Triggers(state.pendingOrders[i], currentCandle)
       /\ OrderStatus(j) = "EXECUTED"
       /\ state.pendingOrders[j].type \in {"BUY_LIMIT", "SELL_LIMIT"}
       /\ Len(tradeUpdate.orderExecutions) = 1
       /\ \/ /\ state.activePosition # Null
             /\ state.activePosition.analysisId = state.pendingOrders[j].analysisId
             /\ state.activePosition.openedAt = currentCandle.time
          \/ /\ tradeUpdate.positionUpdate # Null
             /\ tradeUpdate.positionUpdate.trade.analysisId
                  = state.pendingOrders[j].analysisId
             /\ tradeUpdate.positionUpdate.trade.openedAt = currentCandle.time

\* C5: a call of updateWithCandle reports at most one order execution and at
\* most one position close, however many PENDING orders the candle triggers:
\* with no position open at the call, the earliest-submitted triggering order
\* is the one executed, and every other triggering, unexpired order stays
\* PENDING; the balance moves by the net result of the one closed trade.
C5_AtMostOneExecution ==
  [][IsUpdate =>
       LET T == Triggering(currentCandle')
           E == {i \in Orders : NewlyExecuted(i)}
           pu == tradeUpdate'.positionUpdate
       IN /\ Len(tradeUpdate'.orderExecutions) <= 1
          /\ Len(tradeUpdate'.orderExecutions) = Cardinality(E)
          /\ (state.activePosition = Null /\ T # {}) =>
               E = {CHOOSE i \in T : \A j \in T : i <= j}
          /\ (state.activePosition # Null \/ T = {}) => E = {}
          /\ \A i \in T \ E : state'.pendingOrders[i] = state.pendingOrders[i]
          /\ pu # Null => state'.activePosition = Null
          /\ state'.balance =
               state.balance + (IF pu # Null THEN pu.trade.netPnl ELSE 0)]_vars

\* two orders triggered on the last candle: the first was executed and its
\* position closed by the same candle, the second is still PENDING
C5_Witness ==
  /\ lastOp = "updateWithCandle"
  /\ Len(tradeUpdate.orderExecutions) = 1
  /\ tradeUpdate.positionUpdate # Null
  /\ state.activePosition = Null
  /\ \E i, j \in Orders :
       /\ i < j
       /\ OrderStatus(i) = "EXECUTED"
       /\ tradeUpdate.positionUpdate.trade.analysisId
            = state.pendingOrders[i].analysisId
       /\ tradeUpdate.positionUpdate.trade.openedAt = currentCandle.time
       /\ OrderStatus(j) = "PENDING"
       /\ Triggers(state.pendingOrders[j], currentCandle)
       /\ Unexpired(state.pendingOrders[j], currentCandle)

(***************************************************************************)
(* Properties of a run (RunSpec)                                           *)
(***************************************************************************)
\* the step is one iteration of the replay loop
IsIteration ==
  lastOp' \in {"noAnalysis", "TRADE", "NO_TRADE", "analysisFailed",
               "throwUpdate", "throwOrder"}

\* the step passed a candle to updateWithCandle and the call returned
FedCandle == fed' # fed

\* the call of updateWithCandle made by the step reported a position close
ReportsClose ==
  /\ FedCandle
  /\ tradeUpdate'.positionUpdate # Null
  /\ tradeUpdate'.positionUpdate.closed

\* the step called performAnalysisCycle and it returned the outcome
Analysed(outcome) ==
  /\ Len(oracleCalls') = Len(oracleCalls) + 1
  /\ oracleCalls'[Len(oracleCalls')] = OracleCall(currentIndex, outcome)

IsPrefix(s, t) == Len(s) <= Len(t) /\ SubSeq(t, 1, Len(s)) = s

\* C6: an iteration of the run appends to session.trades exactly the trade of
\* the position close its updateWithCandle call reported, together with
\* exactly one EquityPoint, and appends nothing when no close was reported;
\* no other step changes trades or equity_curve; after every step
\* len(equity_curve) = len(trades) + 1.
C6_OneTradePerClose ==
  [][/\ ReportsClose =>
          /\ session'.trades =
               Append(session.trades, tradeUpdate'.positionUpdate.trade)
          /\ Len(session'.equity_curve) = Len(session.equity_curve) + 1
          /\ IsPrefix(session.equity_curve, session'.equity_curve)
          /\ session'.equity_curve[Len(session'.equity_curve)].timestamp
               = tradeUpdate'.positionUpdate.trade.closedAt
     /\ ~ReportsClose =>
          /\ session'.trades = session.trades
          /\ session'.equity_curve = session.equity_curve
     /\ Len(session'.equity_curve) = Len(session'.trades) + 1]_vars

\* two positions were closed during the run, the last one by the last candle
C6_Witness ==
  /\ Len(session.trades) = 2
  /\ Len(session.equity_curve) = 3
  /\ tradeUpdate.positionUpdate # Null
  /\ session.trades[2] = tradeUpdate.positionUpdate.trade
  /\ session.trades[1] # session.trades[2]

\* C7 as stated: every EquityPoint of session.equity_curve has drawdown >= 0
\* and, the peak balance being positive, drawdown_percent within [0, 100].
C7_DrawdownRange ==
  \A i \in DOMAIN session.equity_curve :
    LET point == session.equity_curve[i] IN
    /\ point.drawdown >= 0
    /\ point.drawdown_percent.den > 0
    /\ point.drawdown_percent.num >= 0
    /\ point.drawdown_percent.num <= 100 * point.drawdown_percent.den

\* C8: an iteration whose analysis returns NO_TRADE at cursor i moves the
\* cursor to i + skipCandles; every iteration processes the candle at the
\* cursor; so no candle of i+1 .. i+skipCandles-1 is passed to
\* updateWithCandle and no call of performAnalysisCycle is made for it.
C8_NoTradeSkip ==
  [][/\ Analysed("NO_TRADE") =>
          /\ currentIndex' = currentIndex + SkipCandles
          /\ fed' = Append(fed, currentIndex)
     /\ IsIteration => currentCandle'.index = currentIndex
     /\ FedCandle => fed' = Append(fed, currentIndex)
     /\ Len(oracleCalls') > Len(oracleCalls) =>
          oracleCalls'[Len(oracleCalls')].index = currentIndex
     /\ \A k \in DOMAIN oracleCalls' :
           oracleCalls'[k].outcome = "NO_TRADE" =>
             LET skipped == (oracleCalls'[k].index + 1)
                              .. (oracleCalls'[k].index + SkipCandles - 1)
             IN /\ \A m \in DOMAIN oracleCalls' :
                     oracleCalls'[m].index \notin skipped
                /\ \A m \in DOMAIN fed' : fed'[m] \notin skipped]_vars

\* a NO_TRADE decision at cursor i, and the candle i + skipCandles processed
\* next
C8_Witness ==
  \E k \in DOMAIN oracleCalls :
    /\ oracleCalls[k].outcome = "NO_TRADE"
    /\ SkipCandles > 1
    /\ currentCandle.index = oracleCalls[k].index + SkipCandles
    /\ \E m \in DOMAIN fed :
         /\ m > 1
         /\ fed[m] = oracleCalls[k].index + SkipCandles
         /\ fed[m - 1] = oracleCalls[k].index

\* C9: an iteration whose analysis fails appends exactly one entry to
\* session.error_logs, submits no pending order, appends nothing to
\* analysis_logs, counts no analysis, moves the cursor by exactly one candle
\* and leaves the run in its loop with the session RUNNING.
C9_AnalysisFailure ==
  [][Analysed("FAILED") =>
       /\ Len(session'.error_logs) = Len(session.error_logs) + 1
       /\ IsPrefix(session.error_logs, session'.error_logs)
       /\ session'.error_logs[Len(session'.error_logs)] = "Analysis failed"
       /\ Len(state'.pendingOrders) = Len(state.pendingOrders)
       /\ session'.analysis_logs = session.analysis_logs
       /\ analysisCount' = analysisCount
       /\ currentIndex' = currentIndex + 1
       /\ pc' = "loop"
       /\ session'.status = "RUNNING"]_vars

\* an analysis failed at cursor i and the run went on to analyse candle i + 1
C9_Witness ==
  \E k \in DOMAIN oracleCalls :
    /\ k < Len(oracleCalls)
    /\ oracleCalls[k].outcome = "FAILED"
    /\ oracleCalls[k + 1].index = oracleCalls[k].index + 1
    /\ oracleCalls[k + 1].outcome = "TRADE"
    /\ "Analysis failed" \in {session.error_logs[i] : i \in DOMAIN session.error_logs}
    /\ Len(state.pendingOrders) = 1

\* the step is an iteration in which a call threw
Threw == lastOp' \in {"throwUpdate", "throwOrder"}

IsTerminal(s) == s # Null /\ s.status \in {"COMPLETED", "FAILED", "CANCELLED"}

C12_CancellationHonoured ==
  [][(cancelRequested /\ pc = "loop") =>
       /\ currentIndex' = currentIndex
       /\ pc' = "returned"
       /\ session'.status = "CANCELLED"
       /\ saved' = JsonSession(session')]_vars

\* the step requested a decision from the oracle
Requested == Len(oracleCalls') = Len(oracleCalls) + 1

WellFormedSymbol(symbol) ==
  /\ Len(symbol) = 6
  /\ \A i \in DOMAIN symbol :
       symbol[i] \in {"E", "U", "R", "S", "D", "e", "u", "r", "s", "d"}

\* the defects of a configuration the specification lists
Defective(config) ==
  \/ ~WellFormedSymbol(config.symbol)
  \/ config.startDate >= config.endDate
  \/ config.endDate > Today
  \/ config.initialBalance <= 0
  \/ config.skipCandles \notin 1..100
  \/ config.analysisWindowHours \notin 1..168
  \/ config.analysisPrompt < 10

\* the configuration the run was started with
ConfigOf(in) == IF "config" \in DOMAIN in THEN in.config ELSE in

C15_FetchFailureAborts ==
  [][/\ lastOp' = "fetchFailed" =>
          /\ pc = "start" /\ pc' = "returned"
          /\ input'.cause \in {"failed", "empty"}
          /\ fed' = <<>>
          /\ oracleCalls' = <<>>
          /\ currentIndex' = 0
          /\ session'.status = "FAILED"
          /\ session'.trades = <<>>
          /\ session'.performance_summary.total_trades = 0
          /\ session'.error_logs = <<"Session failed">>
          /\ returned' = [success |-> FALSE]
          /\ input'.writeOk => saved' = JsonSession(session')
     /\ (lastOp = "fetchFailed" /\ lastOp' # lastOp) =>
          /\ UNCHANGED <<session, state, fed, oracleCalls, saved>>
          /\ input.writeOk => returned' = JsonSession(session)]_vars

\* the fetch returned no candle, the failed session was saved and loaded again
C15_Witness ==
  /\ lastOp = "loadSessionResults"
  /\ "cause" \in DOMAIN input
  /\ input.cause = "empty"
  /\ session.status = "FAILED"
  /\ fed = <<>>
  /\ oracleCalls = <<>>
  /\ returned # Null
  /\ returned.status = "FAILED"
  /\ returned.trades = <<>>

\* C16: when the write of the final snapshot fails at completion, the
\* session is marked FAILED with the error message and the call returns a
\* failure, never a success.
C16_SaveFailureReported ==
  [][(lastOp' = "complete" /\ ~input'.writeOk) =>
       /\ session'.status = "FAILED"
       /\ session'.error_logs # session.error_logs
       /\ returned' = [success |-> FALSE]]_vars

\* a date read back from the file, turned into a date again
ReviveDate(d) == d.iso

\* the trades, equity curve and summary of a loaded session, dates revived
Loaded(file) ==
  [trades |-> [i \in DOMAIN file.trades |->
                 [file.trades[i] EXCEPT !.openedAt = ReviveDate(@),
                                        !.closedAt = ReviveDate(@)]],
   equity_curve |-> [i \in DOMAIN file.equity_curve |->
                       [file.equity_curve[i] EXCEPT
                          !.timestamp = ReviveDate(@)]],
   performance_summary |-> file.performance_summary]

\* C17: a completed session that was saved and then loaded comes back with
\* the same trades, the same equity curve and the same performance summary,
\* field for field, whatever its profit factor (finite, 0 or infinite).
C17_RoundTrip ==
  (/\ lastOp = "loadSessionResults"
   /\ session # Null
   /\ session.status = "COMPLETED"
   /\ returned # Null) =>
    /\ Loaded(returned).trades = session.trades
    /\ Loaded(returned).equity_curve = session.equity_curve
    /\ Loaded(returned).performance_summary = session.performance_summary

(***************************************************************************)
(* The calculators applied to arguments drawn at the start.                *)
(***************************************************************************)
CalcLevels == {5, 15, 20, 25, 35}   \* stop-loss and take-profit levels, in pips
CalcLots == {1, 2}
CalcDts == {15, 1425, 1440, 2895}

\* TradeManagers with one PENDING order and no position
PendingStates ==
  {addPendingOrder(NewTradeManager(InitialBalance), type, price, stopLoss,
                   takeProfit, lotSize, 1, 0) :
     type \in OrderTypes, price \in OrderPrices, stopLoss \in CalcLevels,
     takeProfit \in CalcLevels, lotSize \in CalcLots}

\* the stop-loss at which a BUY of two lots from price loses, commission
\* included, the whole initial balance
WipeoutStop(price) == price - (InitialBalance - 2 * commissionPerLot) \div 2

\* TradeManagers after two orders were submitted and one candle was fed: the
\* first order, a BUY_STOP of two lots, comes before the second in the list
TwoOrderStates ==
  UNION {
    {updateWithCandle(
       addPendingOrder(
         addPendingOrder(NewTradeManager(InitialBalance), "BUY_STOP", price,
                         stopLoss1, price + 5, 2, 1, 0),
         type, price, stopLoss, takeProfit, lotSize, 2, 0),
       candle).state :
       stopLoss1 \in {WipeoutStop(price), price - 5},
       type \in {"BUY_STOP", "SELL_STOP"},
       stopLoss \in CalcLevels, takeProfit \in CalcLevels,
       lotSize \in CalcLots, candle \in ValidCandles(0, 0)} :
    price \in OrderPrices}

\* the TradeManagers holding an open position: one order submitted at time
\* 0, executed and not closed by the candle fed at time 0
OpenStates ==
  {st \in {updateWithCandle(
             addPendingOrder(NewTradeManager(InitialBalance), type, price,
                             stopLoss, takeProfit, lotSize, 1, 0),
             candle).state :
             type \in OrderTypes, price \in OrderPrices,
             stopLoss \in CalcLevels, takeProfit \in CalcLevels,
             lotSize \in CalcLots, candle \in ValidCandles(0, 0)} :
     st.activePosition # Null}

\* the trades a TradeManager emits for one lot on the next M15 candle
EmittedTrades ==
  {r.result.positionUpdate.trade :
     r \in {q \in {updateWithCandle(st, candle) :
                     st \in {o \in OpenStates : o.activePosition.lotSize = 1},
                     candle \in ValidCandles(1, 15)} :
              q.result.positionUpdate # Null}}

TradeStatuses == {"WIN", "LOSS", "BREAKEVEN"}

\* trade sequences by their statuses
StatusSequences ==
  UNION {[1 .. n -> {[status |-> st] : st \in TradeStatuses}] : n \in 0 .. MaxStreak}

TradeLists == UNION {[1 .. n -> EmittedTrades] : n \in 0 .. MaxTrades}

CalcInit ==
  /\ session = Null
  /\ currentIndex = 0
  /\ analysisCount = 0
  /\ pc = "calc"
  /\ currentCandle = NoCandle
  /\ tradeUpdate = NoUpdate
  /\ fed = <<>>
  /\ oracleCalls = <<>>
  /\ lastOp = "init"
  /\ returned = Null
  /\ saved = Null
  /\ cancelRequested = FALSE
  /\ clock = 0
  /\ runs = <<>>
  /\ files = <<>>
  /\ response = Null
  /\ request = Null
  /\ \/ /\ state \in OpenStates \cup PendingStates \cup TwoOrderStates
        /\ input \in [op : {"updateWithCandle"},
                      candle : UNION {ValidCandles(1, dt) : dt \in CalcDts}]
     \/ /\ state = Null
        /\ input \in [op : {"calculateConsecutiveWinsLosses"},
                      trades : StatusSequences]
     \/ /\ state = Null
        /\ input \in [op : {"calculateMetrics"}, trades : TradeLists]

\* updateWithCandle on a TradeManager with an open position
ApplyUpdateWithCandle ==
  /\ pc = "calc"
  /\ lastOp = "init"
  /\ input.op = "updateWithCandle"
  /\ \E r \in {updateWithCandle(state, input.candle)} :
       /\ state' = r.state
       /\ tradeUpdate' = r.result
  /\ currentCandle' = input.candle
  /\ lastOp' = "updateWithCandle"
  /\ UNCHANGED <<session, currentIndex, analysisCount, pc, fed, oracleCalls,
                 returned, saved, input, cancelRequested, serverVars>>

ApplyCalculateConsecutiveWinsLosses ==
  /\ pc = "calc"
  /\ lastOp = "init"
  /\ input.op = "calculateConsecutiveWinsLosses"
  /\ returned' = calculateConsecutiveWinsLosses(input.trades)
  /\ lastOp' = "calculateConsecutiveWinsLosses"
  /\ UNCHANGED <<state, session, currentIndex, analysisCount, pc,
                 currentCandle, tradeUpdate, fed, oracleCalls, saved, input,
                 cancelRequested, serverVars>>

ApplyCalculateMetrics ==
  /\ pc = "calc"
  /\ lastOp = "init"
  /\ input.op = "calculateMetrics"
  /\ returned' = calculateMetrics(input.trades)
  /\ lastOp' = "calculateMetrics"
  /\ UNCHANGED <<state, session, currentIndex, analysisCount, pc,
                 currentCandle, tradeUpdate, fed, oracleCalls, saved, input,
                 cancelRequested, serverVars>>

\* the session's ledger after the same trades: addTrade for each in turn
RECURSIVE addTrades(_, _, _)
addTrades(s, trades, i) ==
  IF i > Len(trades) THEN s ELSE addTrades(addTrade(s, trades[i]), trades, i + 1)

ApplyUpdatePerformanceSummary ==
  /\ pc = "calc"
  /\ lastOp = "calculateMetrics"
  /\ session' = addTrades(createSession(0, InitialBalance), input.trades, 1)
  /\ lastOp' = "updatePerformanceSummary"
  /\ UNCHANGED <<state, returned, currentIndex, analysisCount, pc,
                 currentCandle, tradeUpdate, fed, oracleCalls, saved, input,
                 cancelRequested, serverVars>>

CalcNext ==
  \/ ApplyUpdateWithCandle
  \/ ApplyCalculateConsecutiveWinsLosses
  \/ ApplyCalculateMetrics
  \/ ApplyUpdatePerformanceSummary

CalcSpec == CalcInit /\ [][CalcNext]_vars

(***************************************************************************)
(* Properties of the calculators (CalcSpec)                                *)
(***************************************************************************)
\* the trade reported by the last updateWithCandle
ClosedTrade == tradeUpdate.positionUpdate.trade

\* price difference in the trade's favour times its lots
GrossPnl(t) ==
  IF t.type = "BUY" THEN (t.exitPrice - t.entryPrice) * t.lotSize
                    ELSE (t.entryPrice - t.exitPrice) * t.lotSize

\* C18: a trade emitted when a position closes is WIN exactly when its gross
\* pnl is positive, LOSS exactly when it is negative and BREAKEVEN exactly
\* when it is zero, whatever its commission, swap, net P&L and exit reason.
C18_StatusFromGrossPnl ==
  (lastOp = "updateWithCandle" /\ tradeUpdate.positionUpdate # Null) =>
    /\ ClosedTrade.pnl = GrossPnl(ClosedTrade)
    /\ ClosedTrade.status = "WIN" <=> ClosedTrade.pnl > 0
    /\ ClosedTrade.status = "LOSS" <=> ClosedTrade.pnl < 0
    /\ ClosedTrade.status = "BREAKEVEN" <=> ClosedTrade.pnl = 0
    /\ ClosedTrade.status \in TradeStatuses

\* a winning trade whose commission exceeds its gross pnl
C18_Witness ==
  /\ lastOp = "updateWithCandle"
  /\ tradeUpdate.positionUpdate # Null
  /\ ClosedTrade.status = "WIN"
  /\ ClosedTrade.pnl > 0
  /\ ClosedTrade.netPnl < 0
  /\ ClosedTrade.exitReason = "TAKE_PROFIT"

\* the length of the longest run of consecutive trades of one status
LongestRun(trades, status) ==
  MaxOf({0} \cup
        {n \in 1 .. Len(trades) :
           \E i \in 1 .. Len(trades) - n + 1 :
             \A k \in i .. i + n - 1 : trades[k].status = status})

Statuses(trades) == Field(trades, "status")

\* C19: calculateConsecutiveWinsLosses returns the length of the longest run
\* of consecutive WIN trades and of consecutive LOSS trades, a BREAKEVEN
\* trade ending both running streaks: W,W,L,W,W,W gives 3 and 1, and
\* W,BREAKEVEN,W gives maxWins 1.
C19_LongestStreaks ==
  lastOp = "calculateConsecutiveWinsLosses" =>
    /\ returned.maxWins = LongestRun(input.trades, "WIN")
    /\ returned.maxLosses = LongestRun(input.trades, "LOSS")
    /\ Statuses(input.trades) = <<"WIN", "WIN", "LOSS", "WIN", "WIN", "WIN">>
         => returned = [maxWins |-> 3, maxLosses |-> 1]
    /\ Statuses(input.trades) = <<"WIN", "BREAKEVEN", "WIN">>
         => returned.maxWins = 1

\* two wins, a loss, then three wins
C19_Witness ==
  /\ lastOp = "calculateConsecutiveWinsLosses"
  /\ Statuses(input.trades) = <<"WIN", "WIN", "LOSS", "WIN", "WIN", "WIN">>
  /\ returned = [maxWins |-> 3, maxLosses |-> 1]

\* the sum of the gross pnl of the trades with the given status
GrossOf(trades, status) ==
  Sum(Field(SelectSeq(trades, LAMBDA t : t.status = status), "pnl"))

HasStatus(trades, status) == \E i \in DOMAIN trades : trades[i].status = status

\* C20: calculateMetrics of no trade returns 0 in every field, the profit
\* factor included; of one or more trades, the profit factor is the gross win
\* divided by the absolute gross loss when the gross loss is not zero,
\* infinite when there are wins and no losses, and 0 when there are neither.
C20_MetricsProfitFactor ==
  lastOp = "calculateMetrics" =>
    /\ input.trades = <<>> =>
         /\ DOMAIN returned =
              {"totalTrades", "winningTrades", "losingTrades", "winRate",
               "profitFactor", "averageWin", "averageLoss", "largestWin",
               "largestLoss", "maxConsecutiveWins", "maxConsecutiveLosses",
               "averageTradeDuration", "totalPnl", "totalCommission",
               "totalSwap", "netPnl"}
         /\ \A f \in {"totalTrades", "winningTrades", "losingTrades",
                      "largestWin", "largestLoss", "maxConsecutiveWins",
                      "maxConsecutiveLosses", "totalPnl", "totalCommission",
                      "totalSwap", "netPnl"} : returned[f] = 0
         /\ \A f \in {"winRate", "profitFactor", "averageWin", "averageLoss",
                      "averageTradeDuration"} :
              returned[f].num = 0 /\ returned[f].den # 0
    /\ input.trades # <<>> =>
         /\ GrossOf(input.trades, "LOSS") # 0 =>
              /\ returned.profitFactor.den > 0
              /\ returned.profitFactor.num * Abs(GrossOf(input.trades, "LOSS"))
                   = GrossOf(input.trades, "WIN") * returned.profitFactor.den
         /\ (HasStatus(input.trades, "WIN") /\ ~HasStatus(input.trades, "LOSS"))
              => returned.profitFactor = Rat(1, 0)
         /\ (~HasStatus(input.trades, "WIN") /\ ~HasStatus(input.trades, "LOSS"))
              => returned.profitFactor = Rat(0, 1)

\* the metrics of wins without a loss: an infinite profit factor
C20_Witness ==
  /\ lastOp = "calculateMetrics"
  /\ Len(input.trades) >= 2
  /\ HasStatus(input.trades, "WIN")
  /\ HasStatus(input.trades, "BREAKEVEN")
  /\ ~HasStatus(input.trades, "LOSS")
  /\ returned.profitFactor = Rat(1, 0)

\* C21: an open BUY position whose stop-loss is below and whose take-profit
\* is above its entry price, updated with a candle whose high reaches the
\* take-profit and whose low stays above the stop-loss, is closed by that
\* update with exit reason TAKE_PROFIT, at the take-profit price exactly (not
\* at the candle's high), as a WIN.
C21_TakeProfitExit ==
  [][(/\ input.op = "updateWithCandle"
      /\ lastOp = "init"
      /\ state.activePosition # Null
      /\ state.activePosition.type = "BUY"
      /\ state.activePosition.stopLoss < state.activePosition.entryPrice
      /\ state.activePosition.entryPrice < state.activePosition.takeProfit
      /\ input.candle.high >= state.activePosition.takeProfit
      /\ input.candle.low > state.activePosition.stopLoss) =>
       /\ tradeUpdate'.positionUpdate # Null
       /\ tradeUpdate'.positionUpdate.closed
       /\ tradeUpdate'.positionUpdate.trade.exitReason = "TAKE_PROFIT"
       /\ tradeUpdate'.positionUpdate.trade.exitPrice
            = state.activePosition.takeProfit
       /\ tradeUpdate'.positionUpdate.trade.status = "WIN"
       /\ tradeUpdate'.positionUpdate.trade.type = "BUY"
       /\ state'.activePosition = Null]_vars

\* a BUY position closed at its take-profit 25 by a candle with high 30
C21_Witness ==
  /\ lastOp = "updateWithCandle"
  /\ tradeUpdate.positionUpdate # Null
  /\ ClosedTrade.type = "BUY"
  /\ ClosedTrade.stopLoss < ClosedTrade.entryPrice
  /\ ClosedTrade.entryPrice < ClosedTrade.takeProfit
  /\ currentCandle.high > ClosedTrade.takeProfit
  /\ currentCandle.low > ClosedTrade.stopLoss
  /\ ClosedTrade.exitReason = "TAKE_PROFIT"
  /\ ClosedTrade.exitPrice = ClosedTrade.takeProfit
  /\ ClosedTrade.status = "WIN"

(***************************************************************************)
(* From the extractor's text to the pending order (AIService.              *)
(* parseStage2Response, then lines 1641-1651 of runBacktest).              *)
(***************************************************************************)
\* undefined: the value of a property an object does not have
Undefined == [status |-> "UNDEFINED"]

defaultLotSize == 1     \* details.lotSize = 0.1, one unit of lot of the model

\* the result of String.match: no match, or the number captured
NoMatch == [found |-> FALSE]

Match(value) == [found |-> TRUE, value |-> value]

\* the extractor's texts, by what the tests and patterns of the parser find
\* in them: the words TRADE, NO_TRADE, BUY and SELL, and the numbers that
\* follow "entry", "stop loss", "take profit" and "lot size"
ExtractedTexts ==
  {t \in [trade : BOOLEAN, noTrade : BOOLEAN, buy : BOOLEAN, sell : BOOLEAN,
          entry : {NoMatch} \cup {Match(p) : p \in OrderPrices},
          stopLoss : {NoMatch} \cup {Match(p - d) : p \in OrderPrices, d \in StopDists},
          takeProfit : {NoMatch} \cup {Match(p + d) : p \in OrderPrices, d \in TargetDists},
          lotSize : {NoMatch} \cup {Match(l) : l \in LotSizes}] :
     t.noTrade => t.trade}

\* the object built by parseTradeDetails: a property for each pattern found
parseTradeDetails(text) ==
  LET keys == {k \in {"type", "entryPrice", "stopLoss", "takeProfit", "lotSize"} :
                 \/ k = "type" /\ (text.buy \/ text.sell)
                 \/ k = "entryPrice" /\ text.entry.found
                 \/ k = "stopLoss" /\ text.stopLoss.found
                 \/ k = "takeProfit" /\ text.takeProfit.found
                 \/ k = "lotSize"}
      details == [k \in keys |->
                    CASE k = "type" -> IF text.buy THEN "BUY" ELSE "SELL"
                      [] k = "entryPrice" -> text.entry.value
                      [] k = "stopLoss" -> text.stopLoss.value
                      [] k = "takeProfit" -> text.takeProfit.value
                      [] k = "lotSize" -> IF text.lotSize.found
                                          THEN text.lotSize.value
                                          ELSE defaultLotSize]
  IN IF keys # {} THEN details ELSE Undefined

parseStage2Response(text) ==
  LET decision == IF text.trade /\ ~text.noTrade THEN "TRADE" ELSE "NO_TRADE"
  IN [decision |-> decision,
      tradeDetails |-> IF decision = "TRADE" THEN parseTradeDetails(text)
                       ELSE Undefined]

\* object.key
Property(object, key) ==
  IF key \in DOMAIN object THEN object[key] ELSE Undefined

DecisionInit ==
  /\ state = NewTradeManager(InitialBalance)
  /\ session = Null
  /\ currentIndex = 0
  /\ analysisCount = 0
  /\ pc = "decision"
  /\ currentCandle = NoCandle
  /\ tradeUpdate = NoUpdate
  /\ fed = <<>>
  /\ oracleCalls = <<>>
  /\ lastOp = "init"
  /\ returned = Null
  /\ saved = Null
  /\ input \in [op : {"decision"}, text : ExtractedTexts]
  /\ cancelRequested = FALSE
  /\ clock = 0
  /\ runs = <<>>
  /\ files = <<>>
  /\ response = Null
  /\ request = Null

\* the extractor's text is parsed and the loop acts on the result: on TRADE
\* with tradeDetails an order is placed
PlaceOrder ==
  /\ pc = "decision"
  /\ lastOp = "init"
  /\ \E analysisResult \in {parseStage2Response(input.text)} :
       /\ returned' = analysisResult
       /\ state' =
            IF analysisResult.decision = "TRADE"
               /\ analysisResult.tradeDetails # Undefined
            THEN addPendingOrder(state,
                   determineOrderType(analysisResult.tradeDetails),
                   Property(analysisResult.tradeDetails, "entryPrice"),
                   Property(analysisResult.tradeDetails, "stopLoss"),
                   Property(analysisResult.tradeDetails, "takeProfit"),
                   Property(analysisResult.tradeDetails, "lotSize"),
                   1, 0)
            ELSE state
  /\ lastOp' = "decision"
  /\ UNCHANGED <<session, currentIndex, analysisCount, pc, currentCandle,
                 tradeUpdate, fed, oracleCalls, saved, input, cancelRequested, serverVars>>

DecisionNext == PlaceOrder

DecisionSpec == DecisionInit /\ [][DecisionNext]_vars

\* the trade parameters lack the side, the entry price, the stop-loss or the
\* take-profit
Incomplete(tradeDetails) ==
  {"type", "entryPrice", "stopLoss", "takeProfit"} \ DOMAIN tradeDetails # {}

\* C22: for a TRADE decision whose trade parameters are incomplete no
\* pending order is submitted to the engine.
C22_MalformedTradeRejected ==
  (/\ lastOp = "decision"
   /\ returned.decision = "TRADE"
   /\ Incomplete(returned.tradeDetails)) =>
    state.pendingOrders = <<>>

(***************************************************************************)
(* Two calls of runBacktest in one process, interleaved at their awaits.   *)
(***************************************************************************)
\* the callers of the two runs (config.userId)
Callers == {1, 2}

\* `run-${new Date().toISOString().replace(/[:.]/g, '-')}`: the clock reading
\* to the millisecond, nothing else
testId(now) == <<"run-", now>>

\* path.join(RESULTS_DIR, `${test_id}.json`)
resultsPath(test_id) == <<test_id, ".json">>

\* fs.writeFileSync: the directory with the file created or replaced
writeFileSync(dir, path, data) ==
  [f \in DOMAIN dir \cup {path} |-> IF f = path THEN data ELSE dir[f]]

ConcurrentInit ==
  /\ state = Null
  /\ session = Null
  /\ currentIndex = 0
  /\ analysisCount = 0
  /\ pc = "concurrent"
  /\ currentCandle = NoCandle
  /\ tradeUpdate = NoUpdate
  /\ fed = <<>>
  /\ oracleCalls = <<>>
  /\ lastOp = "init"
  /\ returned = Null
  /\ saved = Null
  /\ input = Null
  /\ cancelRequested = FALSE
  /\ clock = 0
  /\ runs = [c \in Callers |->
               [pc |-> "start", session |-> Null, tradeManager |-> Null,
                currentIndex |-> 0]]
  /\ files = <<>>
  /\ response = Null
  /\ request = Null

singleRunVars ==
  <<state, session, currentIndex, analysisCount, pc, currentCandle,
    tradeUpdate, fed, oracleCalls, returned, saved, input, cancelRequested>>

\* a millisecond passes
Tick ==
  /\ pc = "concurrent"
  /\ clock < MaxClock
  /\ clock' = clock + 1
  /\ lastOp' = "tick"
  /\ UNCHANGED <<singleRunVars, runs, files, response, request>>

\* lines 1550-1600 of a call: createSession names the session after the
\* clock, a TradeManager is constructed for it, the call awaits the candles
RunCreate(c) ==
  /\ pc = "concurrent"
  /\ runs[c].pc = "start"
  /\ runs' = [runs EXCEPT
       ![c].session = [test_id |-> testId(clock), user_id |-> c,
                       status |-> "RUNNING"],
       ![c].tradeManager = NewTradeManager(InitialBalance),
       ![c].pc = "loop"]
  /\ lastOp' = "create"
  /\ UNCHANGED <<singleRunVars, clock, files, response, request>>

\* one iteration of the call's loop, up to its next await
RunIterate(c) ==
  /\ pc = "concurrent"
  /\ runs[c].pc = "loop"
  /\ runs[c].currentIndex < NumCandles
  /\ runs' = [runs EXCEPT ![c].currentIndex = @ + 1]
  /\ lastOp' = "iterate"
  /\ UNCHANGED <<singleRunVars, clock, files, response, request>>

\* lines 1713-1732 of a call: the session is completed and written to its file
RunComplete(c) ==
  /\ pc = "concurrent"
  /\ runs[c].pc = "loop"
  /\ runs[c].currentIndex >= NumCandles
  /\ runs' = [runs EXCEPT ![c].session.status = "COMPLETED",
                          ![c].pc = "returned"]
  /\ files' = writeFileSync(files, resultsPath(runs[c].session.test_id),
                            runs'[c].session)
  /\ lastOp' = "complete"
  /\ UNCHANGED <<singleRunVars, clock, response, request>>

ConcurrentNext ==
  \/ Tick
  \/ \E c \in Callers : RunCreate(c)
  \/ \E c \in Callers : RunIterate(c)
  \/ \E c \in Callers : RunComplete(c)

ConcurrentSpec == ConcurrentInit /\ [][ConcurrentNext]_vars

\* C23: two runs in progress never have the same session id, and the file of
\* a run that returned holds that run's session: no other run wrote to it.
C23_RunsIsolated ==
  pc = "concurrent" =>
    /\ \A a, b \in Callers :
         (a # b /\ runs[a].session # Null /\ runs[b].session # Null) =>
           runs[a].session.test_id # runs[b].session.test_id
    /\ \A c \in Callers :
         runs[c].pc = "returned" =>
           files[resultsPath(runs[c].session.test_id)] = runs[c].session

(***************************************************************************)
(* The controller of the run request (runBacktest of the backtest          *)
(* controller): it awaits SimulationEngine.runBacktest, then responds.     *)
(***************************************************************************)
\* lines 188-211: the awaited call has returned; on success the response
\* carries the session id with status RUNNING, else the error is passed on
SendResponse ==
  /\ pc = "returned"
  /\ response = Null
  /\ response' = IF returned.success
                 THEN [status |-> 200, success |-> TRUE,
                       data |-> [status |-> "RUNNING"]]
                 ELSE [status |-> 500, success |-> FALSE]
  /\ lastOp' = "response"
  /\ UNCHANGED <<singleRunVars, clock, runs, files, request>>

RequestNext ==
  \/ RejectConfiguration
  \/ FetchFailed
  \/ StartRun
  \/ RunNext
  \/ SendResponse

RequestSpec == StartInit /\ [][RequestNext]_vars

\* C24: when the response reporting the session as RUNNING is sent, the
\* replay loop has not finished and the session is not in a terminal status.
C24_ResponseWhileRunning ==
  (lastOp = "response" /\ response.status = 200) =>
    /\ pc = "loop"
    /\ session.status = "RUNNING"

(***************************************************************************)
(* Termination of the replay loop (RunLiveSpec)                            *)
(***************************************************************************)
\* C25: whatever the oracle does (TRADE, NO_TRADE, failure, thrown
\* exception), every iteration of the loop advances the cursor by at least
\* 1, at most NumCandles candles are fed to the engine, and the run
\* eventually returns with its session in a terminal status.
C25_LoopTerminates ==
  /\ [][pc = "loop" => (pc' = "returned" \/ currentIndex' >= currentIndex + 1)]_vars
  /\ [](Len(fed) <= NumCandles /\ currentIndex < NumCandles + SkipCandles)
  /\ <>(pc = "returned" /\ IsTerminal(session))

\* a run that returned after an iteration threw, an analysis failed and a
\* NO_TRADE decision skipped candles
C25_Witness ==
  /\ pc = "returned"
  /\ IsTerminal(session)
  /\ Len(session.error_logs) >= 2
  /\ \E i \in DOMAIN oracleCalls : oracleCalls[i].outcome = "NO_TRADE"
  /\ Len(fed) < NumCandles

\* C26: every trade has netPnl = pnl - commission - swap; the balance changes
\* only on a step that closes a position, by exactly the netPnl of the trade
\* emitted; at all times balance = initial balance + sum of the netPnl of all
\* trades emitted
C26_BalanceIsLedger ==
  /\ [](\A i \in DOMAIN session.trades :
          session.trades[i].netPnl = session.trades[i].pnl
                                     - session.trades[i].commission
                                     - session.trades[i].swap)
  /\ [](state.balance = InitialBalance + Sum(Field(session.trades, "netPnl")))
  /\ [][state'.balance # state.balance =>
          /\ tradeUpdate'.positionUpdate # Null
          /\ tradeUpdate'.positionUpdate.closed
          /\ Len(session'.trades) = Len(session.trades) + 1
          /\ session'.trades[Len(session'.trades)]
               = tradeUpdate'.positionUpdate.trade
          /\ state'.balance
               = state.balance + tradeUpdate'.positionUpdate.trade.netPnl]_vars

C26_Witness ==
  /\ Len(session.trades) >= 2
  /\ \E i \in DOMAIN session.trades : session.trades[i].netPnl > 0
  /\ \E i \in DOMAIN session.trades :
       /\ session.trades[i].netPnl < 0
       /\ session.trades[i].commission + session.trades[i].swap > 0
  /\ state.balance # InitialBalance
  /\ state.balance = InitialBalance + Sum(Field(session.trades, "netPnl"))

\* C27: after every loop iteration the balance of the last equity point equals
\* the TradeManager's balance, and once the session has a trade
\* performance_summary.net_profit_loss equals that balance minus the initial
\* balance
C27_LedgerMatchesBalance ==
  /\ session.equity_curve[Len(session.equity_curve)].balance = state.balance
  /\ Len(session.trades) >= 1 =>
       session.performance_summary.net_profit_loss
         = state.balance - session.initial_balance

C27_Witness ==
  /\ lastOp \in {"noAnalysis", "TRADE", "NO_TRADE", "analysisFailed", "throwOrder"}
  /\ Len(session.trades) >= 1
  /\ Len(session.equity_curve) = Len(session.trades) + 1
  /\ session.trades[Len(session.trades)].pnl
       # session.trades[Len(session.trades)].netPnl
  /\ session.equity_curve[Len(session.equity_curve)].balance = state.balance
  /\ session.performance_summary.net_profit_loss = state.balance - InitialBalance
  /\ session.performance_summary.net_profit_loss # 0

\* C28: once a trade has been added (and in the final snapshot)
\* performance_summary.max_drawdown_percent equals calculateMaxDrawdown of the
\* session's current equity curve, the point of the last trade included
C28_DrawdownOfCurrentCurve ==
  Len(session.trades) >= 1 =>
    LET recorded == session.performance_summary.max_drawdown_percent
        current == calculateMaxDrawdown(session.equity_curve)
    IN ~RatLess(recorded, current) /\ ~RatLess(current, recorded)

\* two quotients are the same number
SameQuotient(a, b) == ~RatLess(a, b) /\ ~RatLess(b, a)

\* C29: TradeCalculator.calculateMetrics and the session's performance summary
\* agree, for the same trades, on the trade counts, the win rate, the profit
\* factor, the net P&L and the longest winning and losing streaks
C29_MetricsAgreeWithSummary ==
  (pc = "calc" /\ lastOp = "updatePerformanceSummary") =>
    LET metrics == returned
        summary == session.performance_summary
    IN /\ metrics.totalTrades = summary.total_trades
       /\ metrics.winningTrades = summary.winning_trades
       /\ metrics.losingTrades = summary.losing_trades
       /\ SameQuotient(metrics.winRate, summary.win_rate_percent)
       /\ SameQuotient(metrics.profitFactor, summary.profit_factor)
       /\ metrics.netPnl = summary.net_profit_loss
       /\ metrics.maxConsecutiveWins = summary.max_consecutive_wins
       /\ metrics.maxConsecutiveLosses = summary.max_consecutive_losses

\* C30: candles are fed to the TradeManager in strictly increasing index
\* order, each at most once; the candles jumped over after a NO_TRADE decision
\* are never fed; and the TradeManager's orders and position change only on a
\* step that feeds the candle at the cursor, so no PENDING order is triggered
\* or expired against a skipped candle
C30_FedInOrderSkippedNeverFed ==
  /\ [](\A i, j \in DOMAIN fed : i < j => fed[i] < fed[j])
  /\ [](\A k \in DOMAIN oracleCalls :
          oracleCalls[k].outcome = "NO_TRADE" =>
            \A m \in DOMAIN fed :
              ~(oracleCalls[k].index < fed[m]
                /\ fed[m] < oracleCalls[k].index + SkipCandles))
  /\ [][(state'.pendingOrders # state.pendingOrders
         \/ state'.activePosition # state.activePosition) =>
          /\ fed' = Append(fed, currentIndex)
          /\ currentCandle'.index = currentIndex
          /\ \A m \in DOMAIN fed : fed[m] < currentIndex]_vars

\* an order placed before a NO_TRADE decision stays PENDING over the skipped
\* candles and is executed on the first candle fed after the skip
C30_Witness ==
  \E k \in DOMAIN oracleCalls, i \in DOMAIN state.pendingOrders :
    /\ oracleCalls[k].outcome = "NO_TRADE"
    /\ SkipCandles > 1
    /\ state.pendingOrders[i].analysisId < k
    /\ state.pendingOrders[i].status = "EXECUTED"
    /\ Len(tradeUpdate.orderExecutions) >= 1
    /\ currentCandle.index = oracleCalls[k].index + SkipCandles
    /\ Len(fed) >= 3
    /\ fed[Len(fed)] = currentCandle.index
    /\ fed[Len(fed) - 1] = oracleCalls[k].index

\* the order of the decision a position or a trade came from
OrderOf(analysisId) ==
  {state.pendingOrders[i] : i \in {j \in DOMAIN state.pendingOrders :
                                     state.pendingOrders[j].analysisId = analysisId}}

\* C31: no look-ahead. The candle of a decision is fed before the decision is
\* requested, so the order of a TRADE decision at candle i is still PENDING,
\* with createdAt the time of candle i, when the iteration ends; it executes
\* only on a candle fed later: every position and every trade has openedAt
\* strictly later than the createdAt of its order
C31_NoLookAhead ==
  /\ [][lastOp' = "TRADE" =>
          /\ fed' = Append(fed, currentIndex)
          /\ Len(state'.pendingOrders) >= 1
          /\ LET order == state'.pendingOrders[Len(state'.pendingOrders)]
             IN /\ order.status = "PENDING"
                /\ order.createdAt = currentCandle'.time
                /\ order.analysisId = Len(oracleCalls')
                /\ oracleCalls'[Len(oracleCalls')].index = currentCandle'.index
          /\ state'.activePosition = Null]_vars
  /\ [](state.activePosition # Null =>
          /\ OrderOf(state.activePosition.analysisId) # {}
          /\ \A order \in OrderOf(state.activePosition.analysisId) :
               /\ order.status = "EXECUTED"
               /\ order.createdAt < state.activePosition.openedAt)
  /\ [](\A i \in DOMAIN session.trades :
          /\ OrderOf(session.trades[i].analysisId) # {}
          /\ \A order \in OrderOf(session.trades[i].analysisId) :
               order.createdAt < session.trades[i].openedAt)

\* an order placed at one candle has been executed on the next one, and a
\* trade of an earlier order has closed
C31_Witness ==
  /\ state.activePosition # Null
  /\ \E order \in OrderOf(state.activePosition.analysisId) :
       /\ order.status = "EXECUTED"
       /\ state.activePosition.openedAt = order.createdAt + 15
  /\ Len(session.trades) >= 1

\* the candle reaches the stop-loss or the take-profit of a position the
\* order would open
TouchesExit(order, candle) ==
  IF IsBuyOrder(order.type)
  THEN candle.low <= order.stopLoss \/ candle.high >= order.takeProfit
  ELSE candle.high >= order.stopLoss \/ candle.low <= order.takeProfit

\* C32: a position opened by an order execution inside updateWithCandle is
\* checked against the same candle in the same call: when the candle touches
\* its stop-loss or take-profit the call reports a closed trade with
\* openedAt = closedAt and duration 0 and leaves no position open; otherwise
\* the position is open when the call returns
C32_OpenAndCloseInOneUpdate ==
  [][\A i \in DOMAIN state.pendingOrders :
       (/\ lastOp' = "updateWithCandle"
        /\ state.activePosition = Null
        /\ state.pendingOrders[i].status = "PENDING"
        /\ state'.pendingOrders[i].status = "EXECUTED") =>
         IF TouchesExit(state.pendingOrders[i], currentCandle')
         THEN /\ tradeUpdate'.positionUpdate # Null
              /\ tradeUpdate'.positionUpdate.closed
              /\ tradeUpdate'.positionUpdate.trade.analysisId
                   = state.pendingOrders[i].analysisId
              /\ tradeUpdate'.positionUpdate.trade.openedAt = currentCandle'.time
              /\ tradeUpdate'.positionUpdate.trade.closedAt = currentCandle'.time
              /\ tradeUpdate'.positionUpdate.trade.duration = 0
              /\ state'.activePosition = Null
         ELSE /\ tradeUpdate'.positionUpdate = Null
              /\ state'.activePosition # Null
              /\ state'.activePosition.openedAt = currentCandle'.time]_vars

\* an order executed and its position closed at the take-profit by one candle
C32_Witness ==
  /\ lastOp = "updateWithCandle"
  /\ Len(tradeUpdate.orderExecutions) >= 1
  /\ tradeUpdate.positionUpdate # Null
  /\ tradeUpdate.positionUpdate.closed
  /\ tradeUpdate.positionUpdate.trade.openedAt = currentCandle.time
  /\ tradeUpdate.positionUpdate.trade.closedAt = currentCandle.time
  /\ tradeUpdate.positionUpdate.trade.duration = 0
  /\ tradeUpdate.positionUpdate.trade.exitReason = "TAKE_PROFIT"
  /\ state.activePosition = Null

\* C33: after every updateWithCandle equity = balance + the unrealized P&L of
\* the open position at the candle's close (0 when none is open), margin =
\* lotSize x 100000 x entryPrice / 100 for the open position (0 when none),
\* freeMargin = equity - margin; so with no position open equity = freeMargin
\* = balance and margin = 0
C33_EquityAndMargin ==
  (pc = "calc" /\ lastOp = "updateWithCandle") =>
    LET position == state.activePosition
        unrealized ==
          IF position = Null THEN 0
          ELSE IF position.type = "BUY"
          THEN (currentCandle.close - position.entryPrice) * position.lotSize
          ELSE (position.entryPrice - currentCandle.close) * position.lotSize
    IN /\ state.equity = state.balance + unrealized
       /\ state.freeMargin = state.equity - state.margin
       /\ position # Null =>
            state.margin * 100 * PipsPerUnit
              = position.lotSize * 100000 * position.entryPrice
       /\ position = Null =>
            /\ state.margin = 0
            /\ state.equity = state.balance
            /\ state.freeMargin = state.balance

\* a position opened by the call and valued at a close away from its entry
\* price
C33_Witness ==
  /\ pc = "calc"
  /\ lastOp = "updateWithCandle"
  /\ Len(tradeUpdate.orderExecutions) >= 1
  /\ state.activePosition # Null
  /\ state.activePosition.openedAt = currentCandle.time
  /\ currentCandle.close # currentCandle.high
  /\ state.equity < state.balance
  /\ state.margin > 0
  /\ state.freeMargin = state.equity - state.margin

\* C34: the trade emitted by a call of updateWithCandle has pnlPercent =
\* netPnl / B x 100 with B the balance before the call, that is before the
\* trade's netPnl was applied, and B is not 0, so that the quotient is defined
C34_PnlPercentOfPriorBalance ==
  [][(/\ pc = "calc"
      /\ lastOp' = "updateWithCandle"
      /\ tradeUpdate'.positionUpdate # Null) =>
       LET trade == tradeUpdate'.positionUpdate.trade
           B == state.balance
       IN /\ state'.balance = B + trade.netPnl
          /\ trade.pnlPercent.num * B = trade.netPnl * 100 * trade.pnlPercent.den
          /\ B # 0
          /\ trade.pnlPercent.den # 0]_vars

\* C35: every trade of a run has exitReason TAKE_PROFIT with exitPrice its
\* takeProfit, or STOP_LOSS with exitPrice its stopLoss; the completion of the
\* run closes no position and emits no trade, a position still open stays
\* open, and the session ends COMPLETED
C35_ExitsAtLevelsOnly ==
  /\ [](\A i \in DOMAIN session.trades :
          \/ /\ session.trades[i].exitReason = "TAKE_PROFIT"
             /\ session.trades[i].exitPrice = session.trades[i].takeProfit
          \/ /\ session.trades[i].exitReason = "STOP_LOSS"
             /\ session.trades[i].exitPrice = session.trades[i].stopLoss)
  /\ [][lastOp' = "complete" =>
          /\ session'.trades = session.trades
          /\ state' = state
          /\ session'.status = "COMPLETED"]_vars

\* a run that ends with a position open, after an earlier trade
C35_Witness ==
  /\ pc = "returned"
  /\ lastOp = "complete"
  /\ state.activePosition # Null
  /\ session.status = "COMPLETED"
  /\ Len(session.trades) >= 1
  /\ \A i \in DOMAIN session.trades :
       session.trades[i].analysisId # state.activePosition.analysisId

\* the order with the given id is in the list and PENDING
IsPending(st, orderId) ==
  \E i \in DOMAIN st.pendingOrders :
    st.pendingOrders[i].orderId = orderId /\ st.pendingOrders[i].status = "PENDING"

\* C36: addPendingOrder appends exactly one PENDING order, whether or not a
\* position is open, and changes nothing else; cancelOrder on an unknown id or
\* on an order that is not PENDING returns false and leaves the state
\* unchanged, on a PENDING order it returns true and changes only that
\* order's status, to CANCELLED; a CANCELLED order stays CANCELLED, so it
\* never executes
C36_SubmitAndCancelFrame ==
  /\ [][lastOp' = "addPendingOrder" =>
          /\ Len(state'.pendingOrders) = Len(state.pendingOrders) + 1
          /\ state'.pendingOrders[Len(state'.pendingOrders)].status = "PENDING"
          /\ state' = [state EXCEPT !.pendingOrders =
                         Append(@, state'.pendingOrders[Len(state'.pendingOrders)])]]_vars
  /\ [][lastOp' = "cancelOrder" =>
          \/ /\ returned' = FALSE
             /\ state' = state
          \/ /\ returned' = TRUE
             /\ \E i \in DOMAIN state.pendingOrders :
                  /\ state.pendingOrders[i].status = "PENDING"
                  /\ state' = [state EXCEPT !.pendingOrders[i].status = "CANCELLED"]]_vars
  /\ [](\A orderId \in 1 .. MaxOrders + 1 :
          LET r == cancelOrder(state, orderId)
          IN IF IsPending(state, orderId)
             THEN /\ r.result = TRUE
                  /\ r.state.pendingOrders[orderId].status = "CANCELLED"
                  /\ r.state = [state EXCEPT !.pendingOrders[orderId].status = "CANCELLED"]
             ELSE r.result = FALSE /\ r.state = state)
  /\ [][\A i \in DOMAIN state.pendingOrders :
          state.pendingOrders[i].status = "CANCELLED" =>
            state'.pendingOrders[i] = state.pendingOrders[i]]_vars

\* the first order was cancelled while PENDING; the candle that reaches its
\* price executes the second order, not the cancelled one
C36_Witness ==
  /\ lastOp = "updateWithCandle"
  /\ Len(state.pendingOrders) = 2
  /\ state.pendingOrders[1].status = "CANCELLED"
  /\ currentCandle.time < state.pendingOrders[1].expiresAt
  /\ shouldExecute(state.pendingOrders[1], currentCandle)
  /\ state.pendingOrders[2].status = "EXECUTED"
  /\ Len(tradeUpdate.orderExecutions) = 1

DataService_MAX_RETRIES == 3
DataService_RETRY_DELAY == 1000
AIService_MAX_RETRIES == 2
AIService_RETRY_DELAY == 3000
ChartService_MAX_RETRIES == 2
ChartService_RETRY_DELAY == 2000

Services == {"DataService", "AIService", "ChartService"}

MAX_RETRIES(service) ==
  CASE service = "DataService" -> DataService_MAX_RETRIES
    [] service = "AIService" -> AIService_MAX_RETRIES
    [] service = "ChartService" -> ChartService_MAX_RETRIES

RETRY_DELAY(service) ==
  CASE service = "DataService" -> DataService_RETRY_DELAY
    [] service = "AIService" -> AIService_RETRY_DELAY
    [] service = "ChartService" -> ChartService_RETRY_DELAY

\* what one call of axios can do: resolve with status 200, resolve with
\* another status, or reject (error status, timeout, no connection)
AttemptOutcomes == {"status200", "otherStatus", "rejected"}

\* the catch block retrying once more than MAX_RETRIES times
shouldRetry_Inclusive(service, retryCount) == retryCount <= MAX_RETRIES(service)

\* if (retryCount < this.MAX_RETRIES)
shouldRetry(service, retryCount) == retryCount < MAX_RETRIES(service)

\* pc: "call" before axios is called, "delay" in await this.delay(...),
\* "returned" with the response, "thrown" with the error propagated
RetryInit ==
  /\ state = Null
  /\ session = Null
  /\ currentIndex = 0
  /\ analysisCount = 0
  /\ pc = "request"
  /\ currentCandle = NoCandle
  /\ tradeUpdate = NoUpdate
  /\ fed = <<>>
  /\ oracleCalls = <<>>
  /\ lastOp = "init"
  /\ returned = Null
  /\ saved = Null
  /\ input = Null
  /\ cancelRequested = FALSE
  /\ clock = 0
  /\ runs = <<>>
  /\ files = <<>>
  /\ response = Null
  /\ request \in [service : Services, retryCount : {0}, attempts : {<<>>},
                  delays : {<<>>}, thrown : {0}, pc : {"call"}]

retryFrame == <<singleRunVars, clock, runs, files, response>>

\* the try block: axios resolves with status 200 and the response is returned
AttemptSucceeds ==
  /\ pc = "request"
  /\ request.pc = "call"
  /\ request' = [request EXCEPT !.attempts = Append(@, "status200"),
                                !.pc = "returned"]
  /\ lastOp' = "attemptSucceeds"
  /\ UNCHANGED retryFrame

\* the try block throws, the catch block either starts the delay before the
\* next attempt or rethrows the error
AttemptFails ==
  /\ pc = "request"
  /\ request.pc = "call"
  /\ \E outcome \in AttemptOutcomes \ {"status200"} :
       request' =
         IF shouldRetry(request.service, request.retryCount)
         THEN [request EXCEPT
                 !.attempts = Append(@, outcome),
                 !.delays = Append(@, RETRY_DELAY(request.service)
                                        * (request.retryCount + 1)),
                 !.pc = "delay"]
         ELSE [request EXCEPT !.attempts = Append(@, outcome),
                              !.thrown = @ + 1,
                              !.pc = "thrown"]
  /\ lastOp' = "attemptFails"
  /\ UNCHANGED retryFrame

\* the delay is over: the function calls itself with retryCount + 1
Retry ==
  /\ pc = "request"
  /\ request.pc = "delay"
  /\ request' = [request EXCEPT !.retryCount = @ + 1, !.pc = "call"]
  /\ lastOp' = "retry"
  /\ UNCHANGED retryFrame

RetryNext == AttemptSucceeds \/ AttemptFails \/ Retry

RetrySpec == RetryInit /\ [][RetryNext]_vars

\* C38: an external request is attempted at most MAX_RETRIES + 1 times (4
\* for OHLCV data, 3 for chart images, 3 for Gemini); the k-th retry is
\* preceded by a delay of RETRY_DELAY x k, so the delays strictly increase;
\* no attempt follows a success; the error is propagated only after the last
\* attempt failed, and exactly once
C38_BoundedRetries ==
  /\ [](pc = "request" =>
          /\ Len(request.attempts) <= MAX_RETRIES(request.service) + 1
          /\ Len(request.attempts)
               <= (CASE request.service = "DataService" -> 4
                     [] request.service = "ChartService" -> 3
                     [] request.service = "AIService" -> 3)
          /\ \A k \in DOMAIN request.delays :
               /\ request.delays[k] = RETRY_DELAY(request.service) * k
               /\ k > 1 => request.delays[k] > request.delays[k - 1]
          /\ \A k \in DOMAIN request.attempts :
               (k > 1 /\ request.pc # "delay") => k - 1 \in DOMAIN request.delays
          /\ \A k \in DOMAIN request.attempts :
               request.attempts[k] = "status200" =>
                 k = Len(request.attempts) /\ request.pc = "returned"
          /\ request.thrown <= 1
          /\ request.thrown = 1 <=> request.pc = "thrown"
          /\ request.pc = "thrown" =>
               /\ Len(request.attempts) = MAX_RETRIES(request.service) + 1
               /\ \A k \in DOMAIN request.attempts :
                    request.attempts[k] # "status200")
  /\ [][(pc = "request" /\ request.pc \in {"returned", "thrown"}) =>
          request' = request]_vars
  /\ [][(pc = "request" /\ request.pc = "call"
         /\ Len(request.attempts) = MAX_RETRIES(request.service)
         /\ request'.attempts # request.attempts
         /\ request'.attempts[Len(request'.attempts)] # "status200") =>
          request'.pc = "thrown" /\ request'.thrown = 1]_vars

\* the four attempts for OHLCV data all failed: three delays, one error
C38_Witness ==
  /\ pc = "request"
  /\ request.service = "DataService"
  /\ Len(request.attempts) = 4
  /\ request.delays = <<1000, 2000, 3000>>
  /\ request.pc = "thrown"
  /\ request.thrown = 1

\* C39: the trade of a position held for less than 24 hours has swap 0;
\* otherwise swap = lotSize x rate x the whole days held, with rate -2 for BUY
\* and +1 for SELL; the commission is lotSize x 7 whatever the holding time
C39_SwapAndCommission ==
  [][(/\ pc = "calc"
      /\ lastOp' = "updateWithCandle"
      /\ tradeUpdate'.positionUpdate # Null) =>
       LET trade == tradeUpdate'.positionUpdate.trade
           held == trade.closedAt - trade.openedAt
           rate == IF trade.type = "BUY" THEN -2 ELSE 1
       IN /\ trade.commission = trade.lotSize * 7
          /\ held < 24 * 60 => trade.swap = 0
          /\ held >= 24 * 60 =>
               \E days \in 1 .. 3 :
                 /\ days * 24 * 60 <= held
                 /\ held < (days + 1) * 24 * 60
                 /\ trade.swap = trade.lotSize * rate * days]_vars

\* a SELL of two lots held for two days and fifteen minutes
C39_Witness ==
  /\ pc = "calc"
  /\ lastOp = "updateWithCandle"
  /\ tradeUpdate.positionUpdate # Null
  /\ ClosedTrade.type = "SELL"
  /\ ClosedTrade.lotSize = 2
  /\ ClosedTrade.closedAt - ClosedTrade.openedAt = 2895
  /\ ClosedTrade.swap = 4
  /\ ClosedTrade.commission = 14

\* 1 when a position is open, else 0
OpenPositions(st) == IF st.activePosition # Null THEN 1 ELSE 0

\* the trade a step emitted, counted
EmittedBy(update) ==
  IF update.positionUpdate # Null /\ update.positionUpdate.closed THEN 1 ELSE 0

\* C40: the number of EXECUTED orders equals the number of trades emitted so
\* far plus 1 if a position is open: it is 0 = 0 + 0 at the start and every
\* step keeps the equality, the trades emitted growing by the trade of the
\* step's update; getTradeStatistics reports totalOrders equal to the sum of
\* the PENDING, EXECUTED, EXPIRED and CANCELLED order counts
C40_ExecutedOrdersAccount ==
  /\ CountOrders(state, "EXECUTED") = 0 /\ OpenPositions(state) = 0
  /\ [][CountOrders(state', "EXECUTED") - OpenPositions(state')
          = CountOrders(state, "EXECUTED") - OpenPositions(state)
            + (IF lastOp' = "updateWithCandle" THEN EmittedBy(tradeUpdate')
                                                ELSE 0)]_vars
  /\ [](CountOrders(state, "EXECUTED") >= OpenPositions(state))
  /\ [](LET statistics == getTradeStatistics(state)
        IN /\ statistics.totalOrders
                = CountOrders(state, "PENDING") + statistics.executedOrders
                  + statistics.expiredOrders + statistics.cancelledOrders
           /\ statistics.executedOrders
                = Len(SelectSeq(state.pendingOrders,
                                LAMBDA o : o.status = "EXECUTED")))

\* two orders executed: the trade of the first was emitted, the position of
\* the second is open
C40_Witness ==
  /\ lastOp = "updateWithCandle"
  /\ CountOrders(state, "EXECUTED") = 2
  /\ state.activePosition # Null
  /\ state.activePosition.analysisId = 2
  /\ EmittedBy(tradeUpdate) = 0
  /\ state.balance # InitialBalance
  /\ getTradeStatistics(state).totalOrders = 2

====
